---- MODULE Spec2Model ----
(***************************************************************************)
(* Agent orchestration subsystem of ai-consensus-mcp: the SQLite task      *)
(* store with its startup recovery, the per-agent inbox, the Supervisor    *)
(* (handoff / assign / send_message) behind the orchestration tools, and   *)
(* the provider subprocess runner with its retry policy.                   *)
(*                                                                         *)
(* Scheduling is asyncio: one coroutine runs until it awaits.  An action   *)
(* of this model is one database statement (or one subprocess event)       *)
(* taking effect together with the synchronous code around it.             *)
(***************************************************************************)
EXTENDS Integers, Sequences, FiniteSets, TLC

\* ---------------------------------------------------------------- bounds
NumCallers == 2
MaxCalls == 2
MaxTasks == 2
MaxSends == 4
MaxInboxCap == 3
MaxRetriesCfg == 4
MaxHour == 2
MaxAge == 2
MaxApiCalls == 3

\* ------------------------------------------------------ program constants
MAX_HANDOFF_DEPTH == 10
TASK_TIMEOUT_SECONDS == 120

NULL == "NULL"

\* an Optional number (a timestamp, a timeout): None, or the value
None == [none |-> TRUE]
Some(ts) == [ts |-> ts]

\* error texts; arg is the number the text is formatted with (0 when none)
Err(text, arg) == [text |-> text, arg |-> arg]
NoError == Err(NULL, 0)

PENDING == "pending"
RUNNING == "running"
COMPLETED == "completed"
FAILED == "failed"
TIMED_OUT == "timed_out"

TaskStatus == {PENDING, RUNNING, COMPLETED, FAILED, TIMED_OUT}
TerminalStatus == {COMPLETED, FAILED, TIMED_OUT}

Callers == 1..NumCallers
\* task id 0 is a row left in the database file by an earlier process; ids
\* 1..MaxTasks are handed out by this process (uuid4, never reused)
OldTaskId == 0
NewTaskIds == 1..MaxTasks

DefaultAgents == {"gemini-worker", "codex-worker", "copilot-worker"}

\* a worker agent: its name, its capability tags, and which instance of the
\* class it is (0 for the one _ensure_setup constructs)
BaseAgent(name, capabilities, inst) ==
    [name |-> name, capabilities |-> capabilities, inst |-> inst]
GeminiWorkerAgent(inst) ==
    BaseAgent("gemini-worker", {"general_qa", "code_generation", "synthesis"}, inst)
CodexWorkerAgent(inst) ==
    BaseAgent("codex-worker", {"general_qa", "code_generation", "code_review"}, inst)
CopilotWorkerAgent(inst) ==
    BaseAgent("copilot-worker", {"general_qa", "code_generation", "code_review"}, inst)

\* BaseAgent.info (the status field is left out)
info(agent) == [name |-> agent.name, capabilities |-> agent.capabilities]

\* AgentRegistry._agents of a new registry: the empty dict
NoAgents == [n \in {} |-> BaseAgent(n, {}, 0)]

register_keep_first(reg, agent) ==
    [n \in DOMAIN reg \cup {agent.name} |-> IF n \in DOMAIN reg THEN reg[n] ELSE agent]

\* AgentRegistry.register: self._agents[agent.name] = agent
register(reg, agent) ==
    [n \in DOMAIN reg \cup {agent.name} |-> IF n = agent.name THEN agent ELSE reg[n]]

list_agents_none(reg) == {}

\* AgentRegistry.list_agents, as the set of the infos listed
list_agents(reg) == {info(reg[n]) : n \in DOMAIN reg}

\* AgentRegistry.get_by_capability
get_by_capability(reg, capability) ==
    {info(reg[n]) : n \in {m \in DOMAIN reg : capability \in reg[m].capabilities}}

\* AgentRegistry.get's None
NoAgent == [name |-> NULL]

\* AgentRegistry.get: self._agents.get(name)
get(reg, name) == IF name \in DOMAIN reg THEN reg[name] ELSE NoAgent
\* names a caller may pass: two that setup registers, one nobody registers
AgentNames == {"gemini-worker", "codex-worker", "ghost"}
SomeAgents == {"gemini-worker", "ghost"}

VARIABLES
    tasks,          \* table tasks: task_id -> row, for the rows that exist
    messages,       \* table messages: set of rows
    initialized,    \* database._initialized
    setup_done,     \* tools.orchestration._setup_done
    registry,       \* AgentRegistry._agents: name -> agent
    pc,             \* per caller: where its coroutine is suspended
    ret,            \* per caller: who called init_db
    op,             \* per caller: the tool call in progress (kind, agent, depth)
    result,         \* per caller: value returned by the Supervisor, "none" while in flight
    local,          \* per caller: locals of the coroutine (msg, excess, cutoff)
    rpc,            \* per task id: position of the detached _safe_run_task
    exec_calls,     \* per agent name: number of execute() invocations started
    ncalls,         \* tool calls made so far
    next_task,      \* next fresh task id
    clock,          \* datetime.now() of the next Message
    sent,           \* history: the messages sent so far, <<message_id, to_agent>>
    INBOX_MAX_MESSAGES,     \* settings.INBOX_MAX_MESSAGES
    PROVIDER_MAX_RETRIES,   \* settings.PROVIDER_MAX_RETRIES
    PROVIDER_RETRY_BASE_DELAY,  \* settings.PROVIDER_RETRY_BASE_DELAY, in seconds
    MASK_ERROR_DETAILS,     \* settings.MASK_ERROR_DETAILS
    attempt_number, \* tenacity retry_state.attempt_number; 0 before the call
    rstate,         \* run_cli_subprocess: "idle", "running" (launching), "communicating",
                    \* "killing", "waiting" (backoff), "done", "raised" (an
                    \* exception left the call)
    outcomes,       \* history: outcome of each _run_once of the current call
    waits,          \* backoff sleeps of the current call
    response,       \* AIResponse returned by run_cli_subprocess
    ended,          \* history, per task id: how agent.execute ended for _safe_run_task
    procs,          \* per execution: provider processes launched for it and still alive
    now,            \* datetime.now(timezone.utc)
    ragent,         \* per task id: the agent handed to _safe_run_task
    hended,         \* history, per caller: how agent.execute ended for its handoff
    registered,     \* history: the agents registered so far, in order
    _status,        \* per agent name: BaseAgent._status of the registered agent
    db,             \* database._db: the connection the module holds, NoConnection for None
    connections,    \* history: the connections opened and not yet closed
    delays          \* history: the backoff waits of the current run_cli_subprocess call

storeVars == <<tasks, messages, initialized, setup_done, registry>>
callVars == <<pc, ret, op, result, local, rpc, exec_calls, ncalls, next_task, clock, sent>>
cfgVars == <<INBOX_MAX_MESSAGES, PROVIDER_MAX_RETRIES, PROVIDER_RETRY_BASE_DELAY,
            MASK_ERROR_DETAILS>>
retryVars == <<attempt_number, rstate, outcomes, waits, response>>
objVars == <<_status, db, connections, delays>>
auxVars == <<ended, procs, now, ragent, hended, registered, objVars>>
vars == <<tasks, messages, initialized, setup_done, registry, pc, ret, op, result,
          local, rpc, exec_calls, ncalls, next_task, clock, sent,
          INBOX_MAX_MESSAGES, PROVIDER_MAX_RETRIES, PROVIDER_RETRY_BASE_DELAY,
          MASK_ERROR_DETAILS,
          attempt_number, rstate, outcomes, waits, response, ended, procs, now, ragent,
          hended, registered, _status, db, connections, delays>>

\* ------------------------------------------------------------------ time
\* an instant of UTC: whole hours since some origin and the microseconds
\* past the hour
Time(h, us) == [h |-> h, us |-> us]

Before(a, b) == a.h < b.h \/ (a.h = b.h /\ a.us < b.us)

\* code point of the two characters that can follow the seconds field
Ord(c) == CASE c = "+" -> 43 [] c = "." -> 46

\* datetime.isoformat() of an aware UTC datetime, as the list of its parts:
\* "<date>T<time>+00:00" when the microsecond is 0 and
\* "<date>T<time>.<microsecond>+00:00" otherwise.  The fixed-width digit
\* fields are kept as numbers, the separators as code points
isoformat(t) ==
    IF t.us = 0 THEN <<t.h, Ord("+")>> ELSE <<t.h, Ord("."), t.us, Ord("+")>>

\* SQLite's comparison of two TEXT values: lexicographic, a proper prefix
\* being smaller
RECURSIVE TextLess(_, _)
TextLess(a, b) ==
    IF b = <<>> THEN FALSE
    ELSE IF a = <<>> THEN TRUE
    ELSE IF Head(a) = Head(b) THEN TextLess(Tail(a), Tail(b))
    ELSE Head(a) < Head(b)

\* datetime.now(timezone.utc) - timedelta(hours=n)
HoursBefore(t, n) == Time(t.h - n, t.us)

\* ------------------------------------------------------------- task rows
\* OrchestrationContext and its model_dump_json(): a text, not the object
OrchestrationContext(tool, depth) == [source_tool |-> tool, current_depth |-> depth]
model_dump_json(ctx) == [json |-> ctx]

\* AgentTask(agent_name, prompt, timeout_seconds, orch_context) with the
\* field defaults: PENDING, no result, no error, created now, not completed.
\* A row of table tasks has the same fields; task_id is the key
AgentTask(agent, prompt, timeout, ctx, created) ==
    [agent_name |-> agent, prompt |-> prompt, status |-> PENDING, result |-> NULL,
     error |-> NoError, timeout_seconds |-> timeout, created_at |-> created,
     completed_at |-> NULL, orch_context |-> ctx]

AssignContext == model_dump_json(OrchestrationContext("agent_assign", 0))

\* the context agent_handoff builds from its current_depth argument and
\* Supervisor.handoff hands on to agent.execute as it is
HandoffContext(depth) == OrchestrationContext("agent_handoff", depth)

\* a None in the orch_context field or column
NoContext == [none |-> TRUE]

InsertRowNoContext(task) ==
    [agent_name |-> task.agent_name, prompt |-> task.prompt, status |-> task.status,
     timeout_seconds |-> task.timeout_seconds, created_at |-> task.created_at,
     orch_context |-> NoContext,
     result |-> NULL, error |-> NoError, completed_at |-> NULL]

\* create_task's INSERT: the columns it names take the AgentTask's values
\* (task_id is the key), result, error and completed_at the schema's NULL
InsertRow(task) ==
    [agent_name |-> task.agent_name, prompt |-> task.prompt, status |-> task.status,
     timeout_seconds |-> task.timeout_seconds, created_at |-> task.created_at,
     orch_context |-> task.orch_context,
     result |-> NULL, error |-> NoError, completed_at |-> NULL]

\* an AgentTask together with its task_id
WithId(id, task) ==
    [task_id |-> id, agent_name |-> task.agent_name, prompt |-> task.prompt,
     status |-> task.status, result |-> task.result, error |-> task.error,
     timeout_seconds |-> task.timeout_seconds, created_at |-> task.created_at,
     completed_at |-> task.completed_at, orch_context |-> task.orch_context]

\* TaskStore._row_to_task
_row_to_task(id, row) ==
    [task_id |-> id, agent_name |-> row.agent_name, prompt |-> row.prompt,
     status |-> row.status, result |-> row.result, error |-> row.error,
     timeout_seconds |-> row.timeout_seconds, created_at |-> row.created_at,
     completed_at |-> row.completed_at, orch_context |-> row.orch_context]

\* get_task's None
NoTask == [task_id |-> NULL]

\* TaskStore.get_task
get_task(tbl, id) == IF id \in DOMAIN tbl THEN _row_to_task(id, tbl[id]) ELSE NoTask

\* TaskStore.list_tasks: the tasks selected; a filter that is None (or
\* empty) is not applied.  The ORDER BY of the list is left out
list_tasks(tbl, agent, status) ==
    {_row_to_task(t, tbl[t]) :
        t \in {u \in DOMAIN tbl : /\ agent \in {NULL, ""} \/ tbl[u].agent_name = agent
                                  /\ status = NULL \/ tbl[u].status = status}}

\* a row as Supervisor.assign of an earlier process left it
Row(agent, status, res, err, done) ==
    [AgentTask(agent, "prompt", TASK_TIMEOUT_SECONDS, AssignContext, isoformat(Time(0, 1)))
        EXCEPT !.status = status, !.result = res, !.error = err, !.completed_at = done]

\* the AgentTask that create_task builds for Supervisor.assign
NewTask(agent, timeout) ==
    AgentTask(agent, "prompt", timeout, AssignContext, isoformat(now))

\* what an earlier process can have left under OldTaskId
OldRows ==
    { Row("gemini-worker", PENDING, NULL, NoError, NULL),
      Row("gemini-worker", RUNNING, NULL, NoError, NULL),
      Row("gemini-worker", COMPLETED, "response", NoError, "ts"),
      Row("gemini-worker", FAILED, NULL, Err("agent error", 0), "ts"),
      Row("gemini-worker", TIMED_OUT, NULL, Err("Task timed out after", TASK_TIMEOUT_SECONDS), "ts") }

Put(f, k, v) == [i \in DOMAIN f \cup {k} |-> IF i = k THEN v ELSE f[i]]

RecoverOrphansNotCompleted(tbl) ==
    [t \in DOMAIN tbl |->
        IF tbl[t].status # COMPLETED
        THEN [tbl[t] EXCEPT !.status = FAILED,
                             !.error = Err("Server restarted", 0)]
        ELSE tbl[t]]

\* init_db: UPDATE tasks SET status = 'failed', error = 'Server restarted'
\*          WHERE status IN ('running', 'pending')
RecoverOrphans(tbl) ==
    [t \in DOMAIN tbl |->
        IF tbl[t].status \in {RUNNING, PENDING}
        THEN [tbl[t] EXCEPT !.status = FAILED,
                             !.error = Err("Server restarted", 0)]
        ELSE tbl[t]]

update_status_upsert(tbl, t, status, res, err) ==
    IF t \in DOMAIN tbl
    THEN [tbl EXCEPT ![t] = [@ EXCEPT !.status = status, !.result = res, !.error = err,
                                      !.completed_at = IF status \in TerminalStatus
                                                       THEN "ts" ELSE NULL]]
    ELSE Put(tbl, t, [InsertRow(NewTask("gemini-worker", TASK_TIMEOUT_SECONDS)) EXCEPT !.status = status])

update_status_keep_error(tbl, t, status, res, err) ==
    IF t \in DOMAIN tbl
    THEN [tbl EXCEPT ![t] = [@ EXCEPT !.status = status, !.result = res,
                                      !.error = IF err = NoError THEN @ ELSE err,
                                      !.completed_at = IF status \in TerminalStatus
                                                       THEN "ts" ELSE NULL]]
    ELSE tbl

\* TaskStore.update_status: UPDATE tasks SET status, result, error,
\* completed_at WHERE task_id = ?; completed_at is stamped for a terminal
\* status and NULL otherwise; an unknown id matches no row
update_status(tbl, t, status, res, err) ==
    IF t \in DOMAIN tbl
    THEN [tbl EXCEPT ![t] = [@ EXCEPT !.status = status, !.result = res, !.error = err,
                                      !.completed_at = IF status \in TerminalStatus
                                                       THEN "ts" ELSE NULL]]
    ELSE tbl


\* ------------------------------------------------------------ Supervisor
_mask_error_never(error) == error

\* supervisor._mask_error
_mask_error(error) == IF MASK_ERROR_DETAILS THEN Err("An internal error occurred", 0) ELSE error

\* what agent.execute under asyncio.wait_for can do: return success, return
\* failure with or without an error text, exceed the timeout, raise
ExecOutcomes == {"ok", "fail", "fail_noerr", "timeout", "exc"}

\* agent.execute raises: two exceptions that differ in their text only
Exceptions == {"exc", "exc_other"}

\* str(e) of the exception raised
str(o) == IF o = "exc" THEN Err("exception text", 0) ELSE Err("another exception text", 0)

NoResult == [kind |-> "none"]
HandoffResult(ok, resp, err) == [kind |-> "handoff", success |-> ok, response |-> resp, error |-> err]
AssignResult(id, status, msg) == [kind |-> "assign", task_id |-> id, status |-> status, message |-> msg]
SendFailure(text) == [kind |-> "text", text |-> text]
\* an exception that leaves the Supervisor method and reaches its caller
Raised(err) == [kind |-> "raised", error |-> err]
SentMessage(id, to) == [kind |-> "message", message_id |-> id, to_agent |-> to]

DepthExceeded == HandoffResult(FALSE, "", Err("Max handoff depth exceeded", MAX_HANDOFF_DEPTH))
NotFound == Err("Agent not found", 0)

NoLocal == [id |-> 0, ts |-> 0, excess |-> 0, cutoff |-> <<>>]

OpKinds == {"handoff", "assign", "send"}
Depths == {MAX_HANDOFF_DEPTH, MAX_HANDOFF_DEPTH + 1}

InFlight(kind) == Cardinality({q \in Callers : pc[q] # "idle" /\ op[q].kind = kind})

HandoffOutcomeNoTimeout(o, timeout) ==
    CASE o = "ok" -> HandoffResult(TRUE, "response", NoError)
      [] o = "fail" -> HandoffResult(FALSE, "", Err("agent error", 0))
      [] o = "fail_noerr" -> HandoffResult(FALSE, "", Err("Agent returned failure", 0))
      [] o = "timeout" -> HandoffResult(FALSE, "", _mask_error(str("exc")))
      [] o \in Exceptions -> HandoffResult(FALSE, "", _mask_error(str(o)))

\* HandoffResult of Supervisor.handoff once agent.execute, run under
\* wait_for with the given timeout, has ended
HandoffOutcome(o, timeout) ==
    CASE o = "ok" -> HandoffResult(TRUE, "response", NoError)
      [] o = "fail" -> HandoffResult(FALSE, "", Err("agent error", 0))
      [] o = "fail_noerr" -> HandoffResult(FALSE, "", Err("Agent returned failure", 0))
      [] o = "timeout" -> HandoffResult(FALSE, "", Err("Handoff timed out after", timeout))
      [] o \in Exceptions -> HandoffResult(FALSE, "", _mask_error(str(o)))

\* the timeout _safe_run_task was handed: the one assign gave create_task
\* for the row of the task
TimeoutOf(tbl, t) == IF t \in DOMAIN tbl THEN tbl[t].timeout_seconds ELSE TASK_TIMEOUT_SECONDS

TaskOutcomeNoTimeout(tbl, t, o) ==
    CASE o = "ok" -> update_status(tbl, t, COMPLETED, "response", NoError)
      [] o = "fail" -> update_status(tbl, t, FAILED, NULL, Err("agent error", 0))
      [] o = "fail_noerr" -> update_status(tbl, t, FAILED, NULL, Err("Agent returned failure", 0))
      [] o = "timeout" -> update_status(tbl, t, FAILED, NULL, _mask_error(str("exc")))
      [] o \in Exceptions -> update_status(tbl, t, FAILED, NULL, _mask_error(str(o)))

\* the update_status call _safe_run_task makes once agent.execute has ended
TaskOutcome(tbl, t, o) ==
    CASE o = "ok" -> update_status(tbl, t, COMPLETED, "response", NoError)
      [] o = "fail" -> update_status(tbl, t, FAILED, NULL, Err("agent error", 0))
      [] o = "fail_noerr" -> update_status(tbl, t, FAILED, NULL, Err("Agent returned failure", 0))
      [] o = "timeout" -> update_status(tbl, t, TIMED_OUT, NULL, Err("Task timed out after", TimeoutOf(tbl, t)))
      [] o \in Exceptions -> update_status(tbl, t, FAILED, NULL, _mask_error(str(o)))

\* an execution that launches provider processes: agent.execute under the
\* handoff of caller p, under the detached run of task t, or one
\* run_cli_subprocess call on its own
ExecIds == ({"handoff"} \X Callers) \cup ({"task"} \X NewTaskIds) \cup {<<"cli", 0>>}

\* ------------------------------------------------------------------ Init
NoTasks == [t \in {} |-> Row("gemini-worker", PENDING, NULL, NoError, NULL)]

InitStore(rows) ==
    /\ tasks \in {NoTasks} \cup {[t \in {OldTaskId} |-> r] : r \in rows}
    /\ messages = {}
    /\ initialized = FALSE
    /\ setup_done = FALSE
    /\ registry = NoAgents

\* database._db = None
NoConnection == 0
\* the connection of a process whose init_db has run
OpenedFirst == 1

InitCalls ==
    /\ pc = [p \in Callers |-> "idle"]
    /\ ret = [p \in Callers |-> "setup"]
    /\ op = [p \in Callers |-> [kind |-> "handoff", agent |-> "ghost", depth |-> 0,
                               timeout |-> None]]
    /\ result = [p \in Callers |-> NoResult]
    /\ local = [p \in Callers |-> NoLocal]
    /\ rpc = [t \in NewTaskIds |-> "none"]
    /\ exec_calls = [a \in AgentNames |-> 0]
    /\ ncalls = 0
    /\ next_task = 1
    /\ clock = 1
    /\ sent = <<>>
    /\ ended = [t \in NewTaskIds |-> "none"]
    /\ procs = [e \in ExecIds |-> 0]
    /\ now = Time(1, 1)
    /\ ragent = [t \in NewTaskIds |-> NULL]
    /\ hended = [p \in Callers |-> "none"]
    /\ registered = <<>>
    /\ _status = [a \in AgentNames \cup DefaultAgents |-> "idle"]
    /\ db = IF initialized THEN OpenedFirst ELSE NoConnection
    /\ connections = IF initialized THEN {OpenedFirst} ELSE {}
    /\ delays = <<>>

InitRetry ==
    /\ attempt_number = 0
    /\ rstate = "idle"
    /\ outcomes = <<>>
    /\ waits = 0
    /\ response = [success |-> FALSE, response |-> "", error |-> NULL]

Init ==
    /\ InitStore({r \in OldRows : r.status = RUNNING})
    /\ InitCalls
    /\ InitRetry
    /\ INBOX_MAX_MESSAGES = 1
    /\ PROVIDER_MAX_RETRIES = 3
    /\ PROVIDER_RETRY_BASE_DELAY = 1
    /\ MASK_ERROR_DETAILS = FALSE

\* ------------------------------------------------- tool call, _ensure_setup
\* init_db as called by caller p with continuation k: returns at once when
\* the flag is set; otherwise it calls get_db, which suspends in
\* aiosqlite.connect when _db is None and returns _db when it is not, and
\* then suspends on the database work
EnsureDb(p, k) ==
    IF initialized
    THEN /\ pc' = [pc EXCEPT ![p] = k]
         /\ ret' = ret
    ELSE /\ pc' = [pc EXCEPT ![p] = IF db = NoConnection THEN "connect" ELSE "init_wait"]
         /\ ret' = [ret EXCEPT ![p] = k]

\* timeout = timeout or settings.TASK_TIMEOUT_SECONDS, of handoff and of
\* assign: Python's or takes the right operand when the left one is falsy,
\* which None is and 0 is
timeout_or_default(timeout) ==
    IF timeout = None \/ timeout.ts = 0 THEN TASK_TIMEOUT_SECONDS ELSE timeout.ts

\* a tool (agent_handoff, agent_assign, send_agent_message) is called with
\* the given timeout argument (None when the caller leaves it out) and runs
\* into _ensure_setup
CallTimeout(p, kind, agent, depth, timeout) ==
    /\ pc[p] = "idle"
    /\ kind = "assign" => next_task + InFlight("assign") <= MaxTasks
    /\ kind = "send" => clock + InFlight("send") <= MaxSends
    /\ ncalls' = ncalls + 1
    /\ op' = [op EXCEPT ![p] = [kind |-> kind, agent |-> agent,
                                depth |-> IF kind = "handoff" THEN depth ELSE 0,
                                timeout |-> timeout]]
    /\ result' = [result EXCEPT ![p] = NoResult]
    /\ local' = [local EXCEPT ![p] = NoLocal]
    /\ IF setup_done
       THEN pc' = [pc EXCEPT ![p] = "body"] /\ ret' = ret
       ELSE EnsureDb(p, "setup")
    /\ UNCHANGED <<storeVars, rpc, exec_calls, next_task, clock, sent, cfgVars, retryVars, auxVars>>

\* the same call with no timeout argument
Call(p, kind, agent, depth) ==
    /\ pc[p] = "idle"
    /\ kind = "assign" => next_task + InFlight("assign") <= MaxTasks
    /\ kind = "send" => clock + InFlight("send") <= MaxSends
    /\ ncalls' = ncalls + 1
    /\ op' = [op EXCEPT ![p] = [kind |-> kind, agent |-> agent,
                                depth |-> IF kind = "handoff" THEN depth ELSE 0,
                                timeout |-> None]]
    /\ result' = [result EXCEPT ![p] = NoResult]
    /\ local' = [local EXCEPT ![p] = NoLocal]
    /\ IF setup_done
       THEN pc' = [pc EXCEPT ![p] = "body"] /\ ret' = ret
       ELSE EnsureDb(p, "setup")
    /\ UNCHANGED <<storeVars, rpc, exec_calls, next_task, clock, sent, cfgVars, retryVars, auxVars>>

\* the value the tool's current_depth parameter takes when the client leaves
\* it out
DefaultDepth == 0

\* the next hop of a chain: while the agent of q's handoff executes, the
\* client driven by that agent calls agent_handoff in its turn.  Nothing
\* tells it the depth it runs at (execute logs the context and calls the
\* provider with the prompt only): current_depth is what that client
\* passes, or the default
ChainedCall(p, q, agent, depth) ==
    /\ pc[p] = "idle"
    /\ pc[q] = "exec"
    /\ op[q].kind = "handoff"
    /\ ncalls' = ncalls + 1
    /\ op' = [op EXCEPT ![p] = [kind |-> "handoff", agent |-> agent, depth |-> depth,
                                timeout |-> None,
                                parent |-> q, parent_depth |-> op[q].depth]]
    /\ result' = [result EXCEPT ![p] = NoResult]
    /\ local' = [local EXCEPT ![p] = NoLocal]
    /\ pc' = [pc EXCEPT ![p] = "body"]
    /\ UNCHANGED <<storeVars, ret, rpc, exec_calls, next_task, clock, sent, cfgVars,
                   retryVars, auxVars>>

\* an identity no open connection has
Fresh(conns) == CHOOSE c \in 1..(Cardinality(conns) + 1) : c \notin conns

\* get_db: aiosqlite.connect returns and the new connection is assigned to
\* _db, whatever _db holds by now; the PRAGMAs follow
Connect(p) ==
    /\ pc[p] = "connect"
    /\ db' = Fresh(connections)
    /\ connections' = connections \cup {Fresh(connections)}
    /\ pc' = [pc EXCEPT ![p] = "init_wait"]
    /\ UNCHANGED <<storeVars, ret, op, result, local, rpc, exec_calls, ncalls, next_task,
                   clock, sent, cfgVars, retryVars, ended, procs, now, ragent, hended,
                   registered, _status, delays>>

\* init_db: the orphan UPDATE and its commit take effect
InitRecover(p) ==
    /\ pc[p] = "init_wait"
    /\ tasks' = RecoverOrphans(tasks)
    /\ pc' = [pc EXCEPT ![p] = "init_commit"]
    /\ UNCHANGED <<messages, initialized, setup_done, registry, ret, op, result, local,
                   rpc, exec_calls, ncalls, next_task, clock, sent, cfgVars, retryVars, auxVars>>

\* init_db resumes after the commit, sets the flag and returns
InitDone(p) ==
    /\ pc[p] = "init_commit"
    /\ initialized' = TRUE
    /\ pc' = [pc EXCEPT ![p] = ret[p]]
    /\ UNCHANGED <<tasks, messages, setup_done, registry, ret, op, result, local,
                   rpc, exec_calls, ncalls, next_task, clock, sent, cfgVars, retryVars, auxVars>>

\* _ensure_setup after init_db: register the default agents unless the
\* registry already lists some, set the flag
SetupFinish(p) ==
    /\ pc[p] = "setup"
    /\ IF list_agents(registry) = {}
       THEN /\ registry' = register(register(register(registry, GeminiWorkerAgent(0)),
                                             CodexWorkerAgent(0)), CopilotWorkerAgent(0))
            /\ registered' = registered \o <<GeminiWorkerAgent(0), CodexWorkerAgent(0),
                                            CopilotWorkerAgent(0)>>
       ELSE UNCHANGED <<registry, registered>>
    /\ setup_done' = TRUE
    /\ pc' = [pc EXCEPT ![p] = "body"]
    /\ UNCHANGED <<tasks, messages, initialized, ret, op, result, local,
                   rpc, exec_calls, ncalls, next_task, clock, sent, cfgVars, retryVars,
                   ended, procs, now, ragent, hended, objVars>>


\* AgentRegistry.get(name) finds an agent
registry_get_any(reg, name) == DOMAIN reg # {}
registry_get(reg, name) == get(reg, name) # NoAgent

\* --------------------------------------------------- provider processes
\* how many of the n processes of an execution are alive once agent.execute
\* has ended with outcome o.  execute returns after communicate() returned,
\* that is after the process exited; call_gemini and call_codex also return
\* a failure when their own 120 s wait expires, without touching the
\* process.  When the wait_for of handoff or _safe_run_task expires the
\* coroutine is cancelled: CancelledError passes every handler of the
\* provider and nothing signals the process
AliveAfter(o, n) ==
    CASE o = "timeout" -> {n}
      [] o = "fail" -> {n, n - 1}
      [] OTHER -> {n - 1}

\* BaseAgent.set_status as execute calls it, before the provider call and
\* in its finally clause (reached when the call returns, raises, or is
\* cancelled by the wait_for of the caller)
set_status(st, name, value) == [st EXCEPT ![name] = value]

\* a provider process that nobody waits for any more exits by itself
ProcExit(e) ==
    /\ procs[e] > 0
    /\ e[1] = "handoff" => pc[e[2]] # "exec"
    /\ e[1] = "task" => rpc[e[2]] # "exec"
    /\ e[1] = "cli" => rstate \in {"idle", "done", "raised", "direct_done"}
    /\ procs' = [procs EXCEPT ![e] = @ - 1]
    /\ UNCHANGED <<storeVars, callVars, cfgVars, retryVars, ended, now, ragent, hended, registered, objVars>>

\* ------------------------------------------------------ Supervisor.handoff
\* orch_ctx.current_depth > MAX_HANDOFF_DEPTH
DepthExceedsGe(depth) == depth >= MAX_HANDOFF_DEPTH
DepthExceeds(depth) == depth > MAX_HANDOFF_DEPTH

\* depth guard, registry lookup, then agent.execute under wait_for: the
\* agent calls its provider, which launches the CLI process
HandoffBody(p) ==
    /\ pc[p] = "body"
    /\ op[p].kind = "handoff"
    /\ IF DepthExceeds(op[p].depth)
       THEN /\ result' = [result EXCEPT ![p] = DepthExceeded]
            /\ pc' = [pc EXCEPT ![p] = "idle"]
            /\ exec_calls' = exec_calls
            /\ procs' = procs
            /\ _status' = _status
       ELSE IF ~registry_get(registry, op[p].agent)
       THEN /\ result' = [result EXCEPT ![p] = HandoffResult(FALSE, "", NotFound)]
            /\ pc' = [pc EXCEPT ![p] = "idle"]
            /\ exec_calls' = exec_calls
            /\ procs' = procs
            /\ _status' = _status
       ELSE /\ result' = result
            /\ pc' = [pc EXCEPT ![p] = "exec"]
            /\ exec_calls' = [exec_calls EXCEPT ![op[p].agent] = @ + 1]
            /\ procs' = [procs EXCEPT ![<<"handoff", p>>] = @ + 1]
            /\ _status' = set_status(_status, op[p].agent, "busy")
    /\ hended' = [hended EXCEPT ![p] = "none"]
    /\ UNCHANGED <<storeVars, ret, op, local, rpc, ncalls, next_task, clock, sent,
                   cfgVars, retryVars, ended, now, ragent, registered, db, connections,
                   delays>>

HandoffFinishDropsAgent(p, o) ==
    /\ pc[p] = "exec"
    /\ result' = [result EXCEPT ![p] = HandoffOutcome(o, timeout_or_default(op[p].timeout))]
    /\ pc' = [pc EXCEPT ![p] = "idle"]
    /\ \E n \in AliveAfter(o, procs[<<"handoff", p>>]) :
          procs' = [procs EXCEPT ![<<"handoff", p>>] = n]
    /\ hended' = [hended EXCEPT ![p] = o]
    /\ _status' = set_status(_status, op[p].agent, "idle")
    /\ registry' = [n \in DOMAIN registry \ {op[p].agent} |-> registry[n]]
    /\ UNCHANGED <<tasks, messages, initialized, setup_done, ret, op, local, rpc,
                   exec_calls, ncalls, next_task, clock,
                   sent, cfgVars, retryVars, ended, now, ragent, registered, db,
                   connections, delays>>

\* agent.execute ends (or the timeout fires) and handoff returns
HandoffFinish(p, o) ==
    /\ pc[p] = "exec"
    /\ result' = [result EXCEPT ![p] = HandoffOutcome(o, timeout_or_default(op[p].timeout))]
    /\ pc' = [pc EXCEPT ![p] = "idle"]
    /\ \E n \in AliveAfter(o, procs[<<"handoff", p>>]) :
          procs' = [procs EXCEPT ![<<"handoff", p>>] = n]
    /\ hended' = [hended EXCEPT ![p] = o]
    /\ _status' = set_status(_status, op[p].agent, "idle")
    /\ UNCHANGED <<storeVars, ret, op, local, rpc, exec_calls, ncalls, next_task, clock,
                   sent, cfgVars, retryVars, ended, now, ragent, registered, db,
                   connections, delays>>

\* ------------------------------------------------------- Supervisor.assign
\* registry lookup, then TaskStore.create_task up to its INSERT
AssignBody(p) ==
    /\ pc[p] = "body"
    /\ op[p].kind = "assign"
    /\ IF ~registry_get(registry, op[p].agent)
       THEN /\ result' = [result EXCEPT ![p] = AssignResult(0, FAILED, NotFound)]
            /\ pc' = [pc EXCEPT ![p] = "idle"]
            /\ UNCHANGED <<ret, local, next_task>>
       ELSE /\ EnsureDb(p, "insert")
            /\ local' = [local EXCEPT ![p].id = next_task]
            /\ next_task' = next_task + 1
            /\ result' = result
    /\ UNCHANGED <<storeVars, op, rpc, exec_calls, ncalls, clock, sent, cfgVars, retryVars, auxVars>>

\* create_task's INSERT takes effect
TaskInsert(p) ==
    /\ pc[p] = "insert"
    /\ tasks' = Put(tasks, local[p].id, InsertRow(NewTask(op[p].agent, timeout_or_default(op[p].timeout))))
    /\ pc' = [pc EXCEPT ![p] = "commit"]
    /\ UNCHANGED <<messages, initialized, setup_done, registry, ret, op, result, local,
                   rpc, exec_calls, ncalls, next_task, clock, sent, cfgVars, retryVars, auxVars>>

\* create_task's INSERT raises (sqlite3.Error: database locked, disk full):
\* nothing in create_task or assign catches it
TaskInsertFails(p) ==
    /\ pc[p] = "insert"
    /\ result' = [result EXCEPT ![p] = Raised(Err("sqlite3 error", 0))]
    /\ pc' = [pc EXCEPT ![p] = "idle"]
    /\ UNCHANGED <<storeVars, ret, op, local, rpc,
                   exec_calls, ncalls, next_task, clock, sent, cfgVars, retryVars, auxVars>>

\* create_task's commit returns; back in assign the detached _safe_run_task
\* is scheduled and the PENDING result returned
TaskCommit(p) ==
    /\ pc[p] = "commit"
    /\ rpc' = [rpc EXCEPT ![local[p].id] = "start"]
    /\ result' = [result EXCEPT ![p] = AssignResult(local[p].id, PENDING, Err("Task assigned", local[p].id))]
    /\ pc' = [pc EXCEPT ![p] = "idle"]
    /\ ragent' = [ragent EXCEPT ![local[p].id] = op[p].agent]
    /\ UNCHANGED <<storeVars, ret, op, local,
                   exec_calls, ncalls, next_task, clock, sent, cfgVars, retryVars,
                   ended, procs, now, hended, registered, objVars>>

\* _safe_run_task: update_status(RUNNING), then agent.execute is started
\* and its provider launches the CLI process
RunnerStart(t) ==
    /\ rpc[t] = "start"
    /\ tasks' = update_status(tasks, t, RUNNING, NULL, NoError)
    /\ rpc' = [rpc EXCEPT ![t] = "exec"]
    /\ exec_calls' = [exec_calls EXCEPT ![ragent[t]] = @ + 1]
    /\ procs' = [procs EXCEPT ![<<"task", t>>] = @ + 1]
    /\ _status' = set_status(_status, ragent[t], "busy")
    /\ UNCHANGED <<messages, initialized, setup_done, registry, pc, ret, op, result, local,
                   ncalls, next_task, clock, sent, cfgVars, retryVars, ended, now, ragent,
                   hended, registered, db, connections, delays>>

RunnerFinishUnlessRaised(t, o) ==
    /\ rpc[t] = "exec"
    /\ tasks' = IF o \in Exceptions THEN tasks ELSE TaskOutcome(tasks, t, o)
    /\ rpc' = [rpc EXCEPT ![t] = "done"]
    /\ ended' = [ended EXCEPT ![t] = o]
    /\ \E n \in AliveAfter(o, procs[<<"task", t>>]) :
          procs' = [procs EXCEPT ![<<"task", t>>] = n]
    /\ _status' = set_status(_status, ragent[t], "idle")
    /\ UNCHANGED <<messages, initialized, setup_done, registry, pc, ret, op, result, local,
                   exec_calls, ncalls, next_task, clock, sent, cfgVars, retryVars, now,
                   ragent, hended, registered, db, connections, delays>>

\* _safe_run_task: agent.execute ends (or the timeout fires), the terminal
\* status is written
RunnerFinish(t, o) ==
    /\ rpc[t] = "exec"
    /\ tasks' = TaskOutcome(tasks, t, o)
    /\ rpc' = [rpc EXCEPT ![t] = "done"]
    /\ ended' = [ended EXCEPT ![t] = o]
    /\ \E n \in AliveAfter(o, procs[<<"task", t>>]) :
          procs' = [procs EXCEPT ![<<"task", t>>] = n]
    /\ _status' = set_status(_status, ragent[t], "idle")
    /\ UNCHANGED <<messages, initialized, setup_done, registry, pc, ret, op, result, local,
                   exec_calls, ncalls, next_task, clock, sent, cfgVars, retryVars, now,
                   ragent, hended, registered, db, connections, delays>>


\* ------------------------------------------- Supervisor.send_message, inbox
Msg(id, to, ts) == [message_id |-> id, to_agent |-> to, timestamp |-> ts, read |-> FALSE]

Inbox(tbl, agent) == {m \in tbl : m.to_agent = agent}

Newest(tbl, agent, n) ==
    {m \in Inbox(tbl, agent) :
        Cardinality({k \in Inbox(tbl, agent) : k.timestamp > m.timestamp}) < n}

\* SELECT message_id FROM messages WHERE to_agent = ?
\* ORDER BY timestamp ASC LIMIT n
Oldest(tbl, agent, n) ==
    {m \in Inbox(tbl, agent) :
        Cardinality({k \in Inbox(tbl, agent) : k.timestamp < m.timestamp}) < n}

\* registry lookup, then AgentInbox.send_message up to its INSERT: the
\* Message gets its id and timestamp when it is constructed
SendBody(p) ==
    /\ pc[p] = "body"
    /\ op[p].kind = "send"
    /\ IF ~registry_get(registry, op[p].agent)
       THEN /\ result' = [result EXCEPT ![p] = SendFailure(NotFound)]
            /\ pc' = [pc EXCEPT ![p] = "idle"]
            /\ UNCHANGED <<ret, local, clock, sent>>
       ELSE /\ EnsureDb(p, "msg_insert")
            /\ local' = [local EXCEPT ![p].id = Len(sent) + 1, ![p].ts = clock]
            /\ clock' = clock + 1
            /\ sent' = Append(sent, <<Len(sent) + 1, op[p].agent>>)
            /\ result' = result
    /\ UNCHANGED <<storeVars, op, rpc, exec_calls, ncalls, next_task, cfgVars, retryVars, auxVars>>

\* send_message: the INSERT and its commit take effect
MsgInsert(p) ==
    /\ pc[p] = "msg_insert"
    /\ messages' = messages \cup {Msg(local[p].id, op[p].agent, local[p].ts)}
    /\ pc' = [pc EXCEPT ![p] = "msg_count"]
    /\ UNCHANGED <<tasks, initialized, setup_done, registry, ret, op, result, local,
                   rpc, exec_calls, ncalls, next_task, clock, sent, cfgVars, retryVars, auxVars>>

\* send_message: the INSERT raises (sqlite3.Error): nothing in
\* AgentInbox.send_message or Supervisor.send_message catches it
MsgInsertFails(p) ==
    /\ pc[p] = "msg_insert"
    /\ result' = [result EXCEPT ![p] = Raised(Err("sqlite3 error", 0))]
    /\ pc' = [pc EXCEPT ![p] = "idle"]
    /\ UNCHANGED <<storeVars, ret, op, local, rpc,
                   exec_calls, ncalls, next_task, clock, sent, cfgVars, retryVars, auxVars>>

\* _enforce_limit: SELECT COUNT(*); within the cap send_message returns
MsgCount(p) ==
    /\ pc[p] = "msg_count"
    /\ LET count == Cardinality(Inbox(messages, op[p].agent)) IN
       IF count > INBOX_MAX_MESSAGES
       THEN /\ local' = [local EXCEPT ![p].excess = count - INBOX_MAX_MESSAGES]
            /\ pc' = [pc EXCEPT ![p] = "msg_delete"]
            /\ result' = result
       ELSE /\ local' = local
            /\ pc' = [pc EXCEPT ![p] = "idle"]
            /\ result' = [result EXCEPT ![p] = SentMessage(local[p].id, op[p].agent)]
    /\ UNCHANGED <<storeVars, ret, op, rpc, exec_calls, ncalls, next_task, clock, sent,
                   cfgVars, retryVars, auxVars>>

\* _enforce_limit: the DELETE of the oldest excess rows and its commit take
\* effect, send_message returns
MsgDelete(p) ==
    /\ pc[p] = "msg_delete"
    /\ messages' = messages \ Oldest(messages, op[p].agent, local[p].excess)
    /\ pc' = [pc EXCEPT ![p] = "idle"]
    /\ result' = [result EXCEPT ![p] = SentMessage(local[p].id, op[p].agent)]
    /\ UNCHANGED <<tasks, initialized, setup_done, registry, ret, op, local,
                   rpc, exec_calls, ncalls, next_task, clock, sent, cfgVars, retryVars, auxVars>>

\* ------------------------------------------- AgentInbox called on its own
\* the message_ids argument of mark_as_read: None when left out, else the
\* ids of the list
NoIds == [given |-> FALSE, ids |-> {}]
Ids(set) == [given |-> TRUE, ids |-> set]

mark_as_read_any_recipient(tbl, agent, message_ids) ==
    IF message_ids.ids # {}
    THEN {m \in tbl : m.message_id \in message_ids.ids}
    ELSE {m \in tbl : m.to_agent = agent /\ ~m.read}

\* mark_as_read: the rows its UPDATE matches.  `if message_ids:` takes the
\* first statement for a list that is not empty, the second for None and
\* for the empty list
\*   UPDATE messages SET read = 1 WHERE to_agent = ? AND message_id IN (...)
\*   UPDATE messages SET read = 1 WHERE to_agent = ? AND read = 0
mark_as_read(tbl, agent, message_ids) ==
    IF message_ids.ids # {}
    THEN {m \in tbl : m.to_agent = agent /\ m.message_id \in message_ids.ids}
    ELSE {m \in tbl : m.to_agent = agent /\ ~m.read}

\* SET read = 1 on the rows matched
SetRead(tbl, rows) == (tbl \ rows) \cup {[m EXCEPT !.read = TRUE] : m \in rows}

\* cursor.rowcount
Count(n) == [kind |-> "count", count |-> n]
Messages(seq) == [kind |-> "messages", messages |-> seq]

\* ORDER BY timestamp ASC / DESC of a set of rows
RECURSIVE OrderAsc(_)
OrderAsc(rows) ==
    IF rows = {} THEN <<>>
    ELSE LET m == CHOOSE r \in rows : \A k \in rows : r.timestamp <= k.timestamp
         IN  <<m>> \o OrderAsc(rows \ {m})

RECURSIVE OrderDesc(_)
OrderDesc(rows) ==
    IF rows = {} THEN <<>>
    ELSE LET m == CHOOSE r \in rows : \A k \in rows : r.timestamp >= k.timestamp
         IN  <<m>> \o OrderDesc(rows \ {m})

\* LIMIT n of SQLite: the first n rows, all rows when n is negative
Limit(seq, n) ==
    IF n < 0 \/ n >= Len(seq) THEN seq ELSE SubSeq(seq, 1, n)

get_messages_oldest_first(tbl, agent, unread_only, limit) ==
    Limit(OrderAsc({m \in tbl : m.to_agent = agent /\ (unread_only => ~m.read)}), limit)

\* get_messages: SELECT * FROM messages WHERE to_agent = ? [AND read = 0]
\*               ORDER BY timestamp DESC LIMIT ?
get_messages(tbl, agent, unread_only, limit) ==
    Limit(OrderDesc({m \in tbl : m.to_agent = agent /\ (unread_only => ~m.read)}), limit)

\* each of these methods issues one statement on the initialised database;
\* the step is that statement taking effect, its commit and the return
MarkRead(p, agent, message_ids) ==
    /\ pc[p] = "idle"
    /\ LET rows == mark_as_read(messages, agent, message_ids) IN
          /\ messages' = SetRead(messages, rows)
          /\ result' = [result EXCEPT ![p] = Count(Cardinality(rows))]
    /\ op' = [op EXCEPT ![p] = [kind |-> "mark_as_read", seq |-> ncalls + 1, agent |-> agent,
                                message_ids |-> message_ids]]
    /\ ncalls' = ncalls + 1
    /\ UNCHANGED <<tasks, initialized, setup_done, registry, pc, ret, local, rpc,
                   exec_calls, next_task, clock, sent, cfgVars, retryVars, auxVars>>

\* clear_inbox: DELETE FROM messages WHERE to_agent = ?
ClearInbox(p, agent) ==
    /\ pc[p] = "idle"
    /\ messages' = messages \ Inbox(messages, agent)
    /\ result' = [result EXCEPT ![p] = Count(Cardinality(messages) - Cardinality(messages'))]
    /\ op' = [op EXCEPT ![p] = [kind |-> "clear_inbox", seq |-> ncalls + 1, agent |-> agent]]
    /\ ncalls' = ncalls + 1
    /\ UNCHANGED <<tasks, initialized, setup_done, registry, pc, ret, local, rpc,
                   exec_calls, next_task, clock, sent, cfgVars, retryVars, auxVars>>

InboxSummary(total, unread, oldest) ==
    [kind |-> "summary", total_messages |-> total, unread_count |-> unread,
     oldest_unread |-> oldest]

\* SELECT MIN(timestamp) ... WHERE to_agent = ? AND read = 0: NULL when no
\* row matches
MinUnread(tbl, agent) ==
    LET rows == {m \in Inbox(tbl, agent) : ~m.read}
    IN  IF rows = {} THEN None
        ELSE Some((CHOOSE m \in rows : \A k \in rows : m.timestamp <= k.timestamp).timestamp)

\* get_inbox_summary is called (on an initialized database: _ensure_db and
\* get_db return without suspending) and issues its first query
SummaryCall(p, agent) ==
    /\ pc[p] = "idle"
    /\ op' = [op EXCEPT ![p] = [kind |-> "summary", seq |-> ncalls + 1, agent |-> agent]]
    /\ ncalls' = ncalls + 1
    /\ result' = [result EXCEPT ![p] = NoResult]
    /\ pc' = [pc EXCEPT ![p] = "sum_total"]
    /\ UNCHANGED <<storeVars, ret, local, rpc, exec_calls, next_task, clock, sent,
                   cfgVars, retryVars, auxVars>>

\* SELECT COUNT(*) as total takes effect
SummaryTotal(p) ==
    /\ pc[p] = "sum_total"
    /\ local' = [local EXCEPT ![p] =
                     [total |-> Cardinality(Inbox(messages, op[p].agent)), unread |-> 0]]
    /\ pc' = [pc EXCEPT ![p] = "sum_unread"]
    /\ UNCHANGED <<storeVars, ret, op, result, rpc, exec_calls, ncalls, next_task, clock,
                   sent, cfgVars, retryVars, auxVars>>

\* SELECT COUNT(*) as unread takes effect; with no unread message the
\* summary is returned
SummaryUnread(p) ==
    /\ pc[p] = "sum_unread"
    /\ LET unread == Cardinality({m \in Inbox(messages, op[p].agent) : ~m.read}) IN
       IF unread > 0
       THEN /\ local' = [local EXCEPT ![p].unread = unread]
            /\ pc' = [pc EXCEPT ![p] = "sum_oldest"]
            /\ result' = result
       ELSE /\ local' = [local EXCEPT ![p] = NoLocal]
            /\ pc' = [pc EXCEPT ![p] = "idle"]
            /\ result' = [result EXCEPT ![p] = InboxSummary(local[p].total, unread, None)]
    /\ UNCHANGED <<storeVars, ret, op, rpc, exec_calls, ncalls, next_task, clock,
                   sent, cfgVars, retryVars, auxVars>>

\* SELECT MIN(timestamp) as oldest takes effect and the summary is returned
SummaryOldest(p) ==
    /\ pc[p] = "sum_oldest"
    /\ result' = [result EXCEPT ![p] =
                      InboxSummary(local[p].total, local[p].unread,
                                   MinUnread(messages, op[p].agent))]
    /\ local' = [local EXCEPT ![p] = NoLocal]
    /\ pc' = [pc EXCEPT ![p] = "idle"]
    /\ UNCHANGED <<storeVars, ret, op, rpc, exec_calls, ncalls, next_task, clock,
                   sent, cfgVars, retryVars, auxVars>>

GetMessages(p, agent, unread_only, limit) ==
    /\ pc[p] = "idle"
    /\ result' = [result EXCEPT ![p] =
                      Messages(get_messages(messages, agent, unread_only, limit))]
    /\ op' = [op EXCEPT ![p] = [kind |-> "get_messages", seq |-> ncalls + 1, agent |-> agent,
                                unread_only |-> unread_only, limit |-> limit]]
    /\ ncalls' = ncalls + 1
    /\ UNCHANGED <<storeVars, pc, ret, local, rpc, exec_calls, next_task, clock, sent,
                   cfgVars, retryVars, auxVars>>

\* ------------------------------------------------------ run_cli_subprocess
\* what one _run_once can do: exit 0 with output, exit 0 with nothing at
\* all, exit 0 with only stderr, exit non-zero, exceed the timeout, fail to
\* launch (FileNotFoundError), raise anything else while running or decoding
\* ("exc"), fail to launch with another exception, one whose str() is empty
\* ("launch_exc", such as the NotImplementedError of an event loop without
\* subprocess support)
RunOutcomes == {"ok", "empty", "appfail", "nonzero", "timeout", "notfound", "exc",
                "launch_exc"}

\* create_subprocess_exec raised
LaunchFailures == {"notfound", "launch_exc"}

\* _run_once raises SubprocessError
Transient == {"nonzero", "timeout"}

IsRetriedAny(o) == o \in Transient \cup {"notfound"}

\* retry=retry_if_exception_type(SubprocessError)
IsRetried(o) == o \in Transient

StopAfterAttemptGt(n, max_retries) == n > max_retries

\* stop=stop_after_attempt(max_retries)
StopAfterAttempt(n, max_retries) == n >= max_retries

FinalResponseStderrIgnored(o) ==
    CASE o \in {"ok", "empty", "appfail"} ->
             [success |-> TRUE, response |-> IF o = "ok" THEN "output" ELSE "(empty)",
              error |-> NULL]
      [] o = "launch_exc" -> [success |-> FALSE, response |-> "", error |-> ""]
      [] OTHER -> [success |-> FALSE, response |-> "", error |-> "error text"]

\* the AIResponse run_cli_subprocess returns when the attempt with outcome o
\* is its last one
FinalResponse(o) ==
    CASE o = "ok" -> [success |-> TRUE, response |-> "output", error |-> NULL]
      [] o = "empty" -> [success |-> TRUE, response |-> "(empty)", error |-> NULL]
      [] o = "appfail" -> [success |-> FALSE, response |-> "", error |-> "stderr text"]
      [] o = "nonzero" -> [success |-> FALSE, response |-> "", error |-> "CLI failed (rc)"]
      [] o = "timeout" -> [success |-> FALSE, response |-> "", error |-> "CLI timed out"]
      [] o = "notfound" -> [success |-> FALSE, response |-> "", error |-> "command not found"]
      [] o = "exc" -> [success |-> FALSE, response |-> "", error |-> "exception text"]
      [] o = "launch_exc" -> [success |-> FALSE, response |-> "", error |-> ""]

\* run_cli_subprocess is called: the first _attempt starts
RunCli ==
    /\ rstate \in {"idle", "done", "raised", "direct_done"}
    /\ rstate' = "running"
    /\ attempt_number' = 1
    /\ outcomes' = <<>>
    /\ waits' = 0
    /\ delays' = <<>>
    /\ response' = [success |-> FALSE, response |-> "", error |-> NULL]
    /\ UNCHANGED <<storeVars, callVars, cfgVars, ended, procs, now, ragent, hended,
                   registered, _status, db, connections>>

\* run_cli_subprocess is called with a ctx whose info() raises an exception
\* that safe_log does not catch (it catches ValueError, AttributeError and
\* RuntimeError): the call to safe_log comes before the try, the exception
\* leaves run_cli_subprocess
RunCliLogRaises ==
    /\ rstate \in {"idle", "done", "raised"}
    /\ rstate' = "raised"
    /\ attempt_number' = 0
    /\ outcomes' = <<>>
    /\ waits' = 0
    /\ delays' = <<>>
    /\ response' = [success |-> FALSE, response |-> "", error |-> NULL]
    /\ UNCHANGED <<storeVars, callVars, cfgVars, ended, procs, now, ragent, hended,
                   registered, _status, db, connections>>

\* _run_once: create_subprocess_exec returns, the process runs
Launch ==
    /\ rstate = "running"
    /\ rstate' = "communicating"
    /\ procs' = [procs EXCEPT ![<<"cli", 0>>] = @ + 1]
    /\ UNCHANGED <<storeVars, callVars, cfgVars, attempt_number, outcomes, waits, response,
                   ended, now, ragent, hended, registered, objVars>>

\* _run_once: the wait_for around communicate() expires; proc.kill() is
\* sent and the coroutine waits in proc.wait()
TimeoutKill ==
    /\ rstate = "communicating"
    /\ rstate' = "killing"
    /\ UNCHANGED <<storeVars, callVars, cfgVars, attempt_number, outcomes, waits, response,
                   auxVars>>

ReapedUnlessTimeout(o, n) == IF o \in LaunchFailures \cup {"timeout"} THEN n ELSE n - 1

\* processes of the call alive when _run_once ends with outcome o, out of
\* n before: the launch failed, or the process exited, by itself or killed
Reaped(o, n) == IF o \in LaunchFailures THEN n ELSE n - 1

\* one _run_once ends: the launch fails, or the process has exited (a
\* killed one has been reaped by proc.wait()); tenacity either retries
\* after a wait or lets the value or exception through to
\* run_cli_subprocess, which returns
Attempt(o) ==
    /\ rstate = CASE o \in LaunchFailures -> "running"
                  [] o = "timeout" -> "killing"
                  [] OTHER -> "communicating"
    /\ outcomes' = Append(outcomes, o)
    /\ procs' = [procs EXCEPT ![<<"cli", 0>>] = Reaped(o, @)]
    /\ IF IsRetried(o) /\ ~StopAfterAttempt(attempt_number, PROVIDER_MAX_RETRIES)
       THEN /\ rstate' = "waiting"
            /\ response' = response
       ELSE /\ rstate' = "done"
            /\ response' = FinalResponse(o)
    /\ UNCHANGED <<attempt_number, waits, storeVars, callVars, cfgVars, ended, now, ragent, hended, registered, objVars>>

\* ------------------------------------------------ call_gemini, call_codex
\* what the process of a direct provider call wrote before it exited
Outputs == {"output", "stderr", "nothing"}

\* the AIResponse call_gemini and call_codex return (the two differ in the
\* command and the provider name only): the exit code is not looked at, so
\* a process that exits non-zero is judged by its output like one that
\* exits zero
DirectResponse(o, out) ==
    CASE o = "ok" \/ (o = "nonzero" /\ out = "output") ->
             [success |-> TRUE, response |-> "output", error |-> NULL]
      [] o = "empty" \/ (o = "nonzero" /\ out = "nothing") ->
             [success |-> TRUE, response |-> "(empty)", error |-> NULL]
      [] o = "appfail" \/ (o = "nonzero" /\ out = "stderr") ->
             [success |-> FALSE, response |-> "", error |-> "stderr text"]
      [] o = "timeout" -> [success |-> FALSE, response |-> "", error |-> "Timeout (120s)"]
      [] o = "notfound" -> [success |-> FALSE, response |-> "", error |-> "command not found"]
      [] o = "exc" -> [success |-> FALSE, response |-> "", error |-> "exception text"]
      [] o = "launch_exc" -> [success |-> FALSE, response |-> "", error |-> ""]

\* call_gemini or call_codex is called, as GeminiWorkerAgent.execute and
\* CodexWorkerAgent.execute do
CallDirect ==
    /\ rstate \in {"idle", "done", "raised", "direct_done"}
    /\ rstate' = "direct_running"
    /\ attempt_number' = 1
    /\ outcomes' = <<>>
    /\ waits' = 0
    /\ delays' = <<>>
    /\ response' = [success |-> FALSE, response |-> "", error |-> NULL]
    /\ UNCHANGED <<storeVars, callVars, cfgVars, ended, procs, now, ragent, hended,
                   registered, _status, db, connections>>

\* create_subprocess_exec returns, the process runs
DirectLaunch ==
    /\ rstate = "direct_running"
    /\ rstate' = "direct_communicating"
    /\ procs' = [procs EXCEPT ![<<"cli", 0>>] = @ + 1]
    /\ UNCHANGED <<storeVars, callVars, cfgVars, attempt_number, outcomes, waits, response,
                   ended, now, ragent, hended, registered, objVars>>

\* the launch fails, the process exits, or the wait_for of 120 s expires
\* (nothing kills the process then); every case is turned into the
\* AIResponse returned, none is retried
DirectFinish(o, out) ==
    /\ rstate = IF o \in LaunchFailures THEN "direct_running" ELSE "direct_communicating"
    /\ outcomes' = <<o>>
    /\ procs' = [procs EXCEPT ![<<"cli", 0>>] =
                     IF o \in LaunchFailures \cup {"timeout"} THEN @ ELSE @ - 1]
    /\ rstate' = "direct_done"
    /\ response' = DirectResponse(o, out)
    /\ UNCHANGED <<attempt_number, waits, storeVars, callVars, cfgVars, ended, now, ragent,
                   hended, registered, objVars>>

Min(x, y) == IF x < y THEN x ELSE y
Max(x, y) == IF x > y THEN x ELSE y

\* max=30 of the wait_exponential_jitter in run_cli_subprocess, in seconds
WaitCap == 30

\* the values random.uniform(0, jitter) is drawn from, jitter left at the
\* library's 1: the two ends of the interval
Jitters == {0, 1}

\* the values MCP_PROVIDER_RETRY_DELAY can set the base delay to: a negative
\* one, none, the default, one whose doubling passes the cap, one above it
BaseDelays == {-1, 0, 1, 8, 31}

wait_exponential_jitter_uncapped(initial, n, jitter) ==
    Max(0, initial * 2 ^ (n - 1) + jitter)

\* tenacity's wait_exponential_jitter(initial, max=30) after attempt n:
\* max(0, min(initial * 2 ** (n - 1) + uniform(0, 1), max))
wait_exponential_jitter(initial, n, jitter) ==
    Max(0, Min(initial * 2 ^ (n - 1) + jitter, WaitCap))

\* the wait_exponential_jitter sleep after a retried attempt: tenacity
\* computes the wait from the number of the attempt that just failed,
\* sleeps, and the next _attempt starts
Backoff ==
    /\ rstate = "waiting"
    /\ rstate' = "running"
    /\ waits' = waits + 1
    /\ \E jitter \in Jitters :
          delays' = Append(delays, wait_exponential_jitter(PROVIDER_RETRY_BASE_DELAY,
                                                           attempt_number, jitter))
    /\ attempt_number' = attempt_number + 1
    /\ UNCHANGED <<outcomes, response, storeVars, callVars, cfgVars, ended, procs, now,
                   ragent, hended, registered, _status, db, connections>>

\* ------------------------------------------------ cleanup_tasks, close_db
\* DELETE FROM tasks WHERE created_at < cutoff AND status IN (completed,
\* failed, timed_out): the rows that remain
cleanup_old_tasks_any_status(tbl, cutoff) ==
    [t \in {u \in DOMAIN tbl : ~TextLess(tbl[u].created_at, cutoff)} |-> tbl[t]]
cleanup_old_tasks(tbl, cutoff) ==
    [t \in {u \in DOMAIN tbl : ~(/\ TextLess(tbl[u].created_at, cutoff)
                                  /\ tbl[u].status \in TerminalStatus)} |-> tbl[t]]

Deleted(n) == [kind |-> "deleted", count |-> n]

\* the cleanup_tasks tool is called and runs into _ensure_setup
CleanupCall(p, max_age_hours) ==
    /\ pc[p] = "idle"
    /\ ncalls' = ncalls + 1
    /\ op' = [op EXCEPT ![p] = [kind |-> "cleanup", agent |-> NULL, depth |-> 0,
                                max_age_hours |-> max_age_hours]]
    /\ result' = [result EXCEPT ![p] = NoResult]
    /\ local' = [local EXCEPT ![p] = NoLocal]
    /\ IF setup_done
       THEN pc' = [pc EXCEPT ![p] = "body"] /\ ret' = ret
       ELSE EnsureDb(p, "setup")
    /\ UNCHANGED <<storeVars, rpc, exec_calls, next_task, clock, sent, cfgVars, retryVars,
                   auxVars>>

\* cleanup_old_tasks up to the end of its _ensure_db
CleanupBody(p) ==
    /\ pc[p] = "body"
    /\ op[p].kind = "cleanup"
    /\ EnsureDb(p, "cutoff")
    /\ UNCHANGED <<storeVars, op, result, local, rpc, exec_calls, ncalls, next_task, clock,
                   sent, cfgVars, retryVars, auxVars>>

\* cleanup_old_tasks: the cutoff is taken from the clock and the DELETE
\* issued
CleanupCutoff(p) ==
    /\ pc[p] = "cutoff"
    /\ local' = [local EXCEPT ![p].cutoff = isoformat(HoursBefore(now, op[p].max_age_hours))]
    /\ pc' = [pc EXCEPT ![p] = "delete"]
    /\ UNCHANGED <<storeVars, ret, op, result, rpc, exec_calls, ncalls, next_task, clock,
                   sent, cfgVars, retryVars, auxVars>>

\* cleanup_old_tasks: the DELETE and its commit take effect, the rowcount is
\* returned
CleanupDelete(p) ==
    /\ pc[p] = "delete"
    /\ tasks' = cleanup_old_tasks(tasks, local[p].cutoff)
    /\ result' = [result EXCEPT ![p] =
                      Deleted(Cardinality(DOMAIN tasks) - Cardinality(DOMAIN tasks'))]
    /\ pc' = [pc EXCEPT ![p] = "idle"]
    /\ UNCHANGED <<messages, initialized, setup_done, registry, ret, op, local, rpc,
                   exec_calls, ncalls, next_task, clock, sent, cfgVars, retryVars, auxVars>>

\* close_db, called while nothing uses the connection: the next store
\* operation runs init_db again
close_db ==
    /\ initialized
    /\ \A p \in Callers : pc[p] = "idle"
    /\ \A t \in NewTaskIds : rpc[t] \in {"none", "done"}
    /\ initialized' = FALSE
    /\ db' = NoConnection
    /\ connections' = connections \ {db}
    /\ UNCHANGED <<tasks, messages, setup_done, registry, callVars, cfgVars, retryVars,
                   ended, procs, now, ragent, hended, registered, _status, delays>>

\* time passes: to the next microsecond of this hour or to the next hour
Tick ==
    /\ now.h < MaxHour
    /\ now' \in {Time(now.h, 1), Time(now.h + 1, 0)} \ {now}
    /\ UNCHANGED <<storeVars, callVars, cfgVars, retryVars, ended, procs, ragent, hended, registered, objVars>>

\* ------------------------------------------- TaskStore called on its own
\* a client calls the store's methods one after another on an initialised
\* database; each call is recorded in op with its number and arguments
Returned(task) == [kind |-> "task", task |-> task]
Listed(set) == [kind |-> "tasks", tasks |-> set]

ApiCreate(p, agent, prompt, ctx, timeout) ==
    /\ pc[p] = "idle"
    /\ LET task == AgentTask(agent, prompt, timeout, ctx, isoformat(now)) IN
          /\ tasks' = Put(tasks, next_task, InsertRow(task))
          /\ result' = [result EXCEPT ![p] = Returned(WithId(next_task, task))]
    /\ op' = [op EXCEPT ![p] = [kind |-> "create_task", seq |-> ncalls + 1,
                                task_id |-> next_task]]
    /\ next_task' = next_task + 1
    /\ ncalls' = ncalls + 1
    /\ UNCHANGED <<messages, initialized, setup_done, registry, pc, ret, local, rpc,
                   exec_calls, clock, sent, cfgVars, retryVars, auxVars>>

ApiUpdate(p, t, status, res, err) ==
    /\ pc[p] = "idle"
    /\ tasks' = update_status(tasks, t, status, res, err)
    /\ result' = [result EXCEPT ![p] = Returned(get_task(tasks', t))]
    /\ op' = [op EXCEPT ![p] = [kind |-> "update_status", seq |-> ncalls + 1,
                                task_id |-> t, status |-> status, result |-> res,
                                error |-> err]]
    /\ ncalls' = ncalls + 1
    /\ UNCHANGED <<messages, initialized, setup_done, registry, pc, ret, local, rpc,
                   exec_calls, next_task, clock, sent, cfgVars, retryVars, auxVars>>

ApiGet(p, t) ==
    /\ pc[p] = "idle"
    /\ result' = [result EXCEPT ![p] = Returned(get_task(tasks, t))]
    /\ op' = [op EXCEPT ![p] = [kind |-> "get_task", seq |-> ncalls + 1, task_id |-> t]]
    /\ ncalls' = ncalls + 1
    /\ UNCHANGED <<storeVars, pc, ret, local, rpc, exec_calls, next_task, clock, sent,
                   cfgVars, retryVars, auxVars>>

ApiList(p, agent, status) ==
    /\ pc[p] = "idle"
    /\ result' = [result EXCEPT ![p] = Listed(list_tasks(tasks, agent, status))]
    /\ op' = [op EXCEPT ![p] = [kind |-> "list_tasks", seq |-> ncalls + 1,
                                agent |-> agent, status |-> status]]
    /\ ncalls' = ncalls + 1
    /\ UNCHANGED <<storeVars, pc, ret, local, rpc, exec_calls, next_task, clock, sent,
                   cfgVars, retryVars, auxVars>>

\* ---------------------------------------- AgentRegistry called on its own
\* every method runs under `async with self._lock` and awaits nothing inside
\* it: the lock is free whenever a coroutine reaches it, acquiring a free
\* asyncio.Lock does not suspend, so a method runs from call to return
\* without another coroutine in between
Found(agent) == [kind |-> "agent", agent |-> agent]
Infos(set) == [kind |-> "infos", infos |-> set]

RegRegister(p, agent) ==
    /\ pc[p] = "idle"
    /\ registry' = register(registry, agent)
    /\ registered' = Append(registered, agent)
    /\ result' = [result EXCEPT ![p] = NoResult]
    /\ op' = [op EXCEPT ![p] = [kind |-> "register", seq |-> ncalls + 1, name |-> agent.name]]
    /\ ncalls' = ncalls + 1
    /\ UNCHANGED <<tasks, messages, initialized, setup_done, pc, ret, local, rpc,
                   exec_calls, next_task, clock, sent, cfgVars, retryVars,
                   ended, procs, now, ragent, hended, objVars>>

RegGet(p, name) ==
    /\ pc[p] = "idle"
    /\ result' = [result EXCEPT ![p] = Found(get(registry, name))]
    /\ op' = [op EXCEPT ![p] = [kind |-> "get", seq |-> ncalls + 1, name |-> name]]
    /\ ncalls' = ncalls + 1
    /\ UNCHANGED <<storeVars, pc, ret, local, rpc, exec_calls, next_task, clock, sent,
                   cfgVars, retryVars, auxVars>>

RegList(p) ==
    /\ pc[p] = "idle"
    /\ result' = [result EXCEPT ![p] = Infos(list_agents(registry))]
    /\ op' = [op EXCEPT ![p] = [kind |-> "list_agents", seq |-> ncalls + 1]]
    /\ ncalls' = ncalls + 1
    /\ UNCHANGED <<storeVars, pc, ret, local, rpc, exec_calls, next_task, clock, sent,
                   cfgVars, retryVars, auxVars>>

RegByCapability(p, capability) ==
    /\ pc[p] = "idle"
    /\ result' = [result EXCEPT ![p] = Infos(get_by_capability(registry, capability))]
    /\ op' = [op EXCEPT ![p] = [kind |-> "get_by_capability", seq |-> ncalls + 1,
                                capability |-> capability]]
    /\ ncalls' = ncalls + 1
    /\ UNCHANGED <<storeVars, pc, ret, local, rpc, exec_calls, next_task, clock, sent,
                   cfgVars, retryVars, auxVars>>

\* --------------------------------------------------------- specifications
\* the callers are interchangeable, so they are numbered in the order of
\* their first calls: a caller has called when it is in a call or holds the
\* result of one
Called(q) == pc[q] # "idle" \/ result[q] # NoResult
InOrder(p) == \A q \in Callers : q < p => Called(q)

Next ==
    \/ \E p \in Callers, k \in OpKinds, a \in SomeAgents, d \in Depths :
          ncalls < MaxCalls /\ Call(p, k, a, d)
    \/ \E p, q \in Callers, a \in SomeAgents :
          \E d \in {DefaultDepth, op[q].depth + 1} :
              ncalls < MaxCalls /\ ChainedCall(p, q, a, d)
    \/ \E p \in Callers : Connect(p)
    \/ \E p \in Callers : InitRecover(p)
    \/ \E p \in Callers : InitDone(p)
    \/ \E p \in Callers : SetupFinish(p)
    \/ \E p \in Callers : HandoffBody(p)
    \/ \E p \in Callers, o \in ExecOutcomes : HandoffFinish(p, o)
    \/ \E p \in Callers : AssignBody(p)
    \/ \E p \in Callers : TaskInsert(p)
    \/ \E p \in Callers : TaskCommit(p)
    \/ \E t \in NewTaskIds : RunnerStart(t)
    \/ \E t \in NewTaskIds, o \in ExecOutcomes : RunnerFinish(t, o)
    \/ \E p \in Callers : SendBody(p)
    \/ \E p \in Callers : MsgInsert(p)
    \/ \E p \in Callers : MsgCount(p)
    \/ \E p \in Callers : MsgDelete(p)
    \/ \E p \in Callers : TaskInsertFails(p)
    \/ \E p \in Callers : MsgInsertFails(p)
    \/ \E e \in ExecIds : ProcExit(e)

Spec == Init /\ [][Next]_vars

\* the task store under agent_assign calls, for every row an earlier process
\* can have left behind
InitStoreSpec ==
    /\ InitStore(OldRows)
    /\ InitCalls
    /\ InitRetry
    /\ INBOX_MAX_MESSAGES = 1
    /\ PROVIDER_MAX_RETRIES = 3
    /\ PROVIDER_RETRY_BASE_DELAY = 1
    /\ MASK_ERROR_DETAILS = FALSE

NextStore ==
    \/ \E p \in Callers, a \in SomeAgents :
          ncalls < MaxCalls /\ Call(p, "assign", a, 0)
    \/ \E p \in Callers : Connect(p)
    \/ \E p \in Callers : InitRecover(p)
    \/ \E p \in Callers : InitDone(p)
    \/ \E p \in Callers : SetupFinish(p)
    \/ \E p \in Callers : AssignBody(p)
    \/ \E p \in Callers : TaskInsert(p)
    \/ \E p \in Callers : TaskCommit(p)
    \/ \E t \in NewTaskIds : RunnerStart(t)
    \/ \E t \in NewTaskIds, o \in ExecOutcomes : RunnerFinish(t, o)
    \/ \E e \in ExecIds : ProcExit(e)

SpecStore == InitStoreSpec /\ [][NextStore]_vars

\* agent_assign calls on a database file without rows of an earlier process
InitStoreFair ==
    /\ InitStore({})
    /\ InitCalls
    /\ InitRetry
    /\ INBOX_MAX_MESSAGES = 1
    /\ PROVIDER_MAX_RETRIES = 3
    /\ PROVIDER_RETRY_BASE_DELAY = 1
    /\ MASK_ERROR_DETAILS = FALSE

\* the event loop's scheduling: a coroutine that can resume
\* is resumed, a database statement that was issued takes effect, and
\* agent.execute under asyncio.wait_for ends or is timed out.  Tool calls
\* themselves are the clients' choice
FairStore ==
    /\ \A p \in Callers :
          /\ WF_vars(Connect(p))
          /\ WF_vars(InitRecover(p))
          /\ WF_vars(InitDone(p))
          /\ WF_vars(SetupFinish(p))
          /\ WF_vars(AssignBody(p))
          /\ WF_vars(TaskInsert(p))
          /\ WF_vars(TaskCommit(p))
    /\ \A t \in NewTaskIds :
          /\ WF_vars(RunnerStart(t))
          /\ WF_vars(\E o \in ExecOutcomes : RunnerFinish(t, o))

SpecStoreFair == InitStoreFair /\ [][NextStore]_vars /\ FairStore

\* handoff and assign to a registered agent, with error masking configured
\* either way and execute raising either exception
InitMask ==
    /\ InitStore({})
    /\ InitCalls
    /\ InitRetry
    /\ INBOX_MAX_MESSAGES = 1
    /\ PROVIDER_MAX_RETRIES = 3
    /\ PROVIDER_RETRY_BASE_DELAY = 1
    /\ MASK_ERROR_DETAILS \in BOOLEAN

NextMask ==
    \/ \E p \in Callers, k \in {"handoff", "assign"} :
          ncalls < MaxCalls /\ Call(p, k, "gemini-worker", MAX_HANDOFF_DEPTH)
    \/ \E p \in Callers : Connect(p)
    \/ \E p \in Callers : InitRecover(p)
    \/ \E p \in Callers : InitDone(p)
    \/ \E p \in Callers : SetupFinish(p)
    \/ \E p \in Callers : HandoffBody(p)
    \/ \E p \in Callers, o \in ExecOutcomes \cup Exceptions : HandoffFinish(p, o)
    \/ \E p \in Callers : AssignBody(p)
    \/ \E p \in Callers : TaskInsert(p)
    \/ \E p \in Callers : TaskCommit(p)
    \/ \E t \in NewTaskIds : RunnerStart(t)
    \/ \E t \in NewTaskIds, o \in ExecOutcomes \cup Exceptions : RunnerFinish(t, o)

SpecMask == InitMask /\ [][NextMask]_vars

\* a database file in which an earlier process left one row and one message
OldRowsAt(times) ==
    {[r EXCEPT !.created_at = isoformat(t)] :
        r \in {o \in OldRows : o.status \in {RUNNING, COMPLETED, FAILED}}, t \in times}

InitMaint ==
    /\ tasks \in {[t \in {OldTaskId} |-> r] :
                     r \in OldRowsAt({Time(1, 0)})}
    /\ messages = {Msg(0, "gemini-worker", 0)}
    /\ initialized = FALSE
    /\ setup_done = FALSE
    /\ registry = NoAgents
    /\ InitCalls
    /\ InitRetry
    /\ INBOX_MAX_MESSAGES = 1
    /\ PROVIDER_MAX_RETRIES = 3
    /\ PROVIDER_RETRY_BASE_DELAY = 1
    /\ MASK_ERROR_DETAILS = FALSE

\* startup recovery next to running work: agent_assign calls arriving
\* while init_db runs, and close_db, after which init_db runs again
NextRecover ==
    \/ \E p \in Callers :
          ncalls < MaxCalls /\ InOrder(p) /\ Call(p, "assign", "gemini-worker", 0)
    \/ \E p \in Callers : Connect(p)
    \/ \E p \in Callers : InitRecover(p)
    \/ \E p \in Callers : InitDone(p)
    \/ \E p \in Callers : SetupFinish(p)
    \/ \E p \in Callers : AssignBody(p)
    \/ \E p \in Callers : TaskInsert(p)
    \/ \E p \in Callers : TaskCommit(p)
    \/ \E t \in NewTaskIds : RunnerStart(t)
    \/ \E t \in NewTaskIds : RunnerFinish(t, "ok")
    \/ close_db

SpecRecover == InitMaint /\ [][NextRecover]_vars

\* the same database file once the first tool call has been served: init_db
\* has run, so the row left is terminal, and the agents are registered
InitMaintReady ==
    /\ tasks \in {[t \in {OldTaskId} |-> r] :
                     r \in {o \in OldRowsAt({Time(1, 0)}) : o.status \in TerminalStatus}}
    /\ messages = {Msg(0, "gemini-worker", 0)}
    /\ initialized = TRUE
    /\ setup_done = TRUE
    /\ registry = register(register(register(NoAgents, GeminiWorkerAgent(0)),
                                    CodexWorkerAgent(0)), CopilotWorkerAgent(0))
    /\ InitCalls
    /\ InitRetry
    /\ INBOX_MAX_MESSAGES = 1
    /\ PROVIDER_MAX_RETRIES = 3
    /\ PROVIDER_RETRY_BASE_DELAY = 1
    /\ MASK_ERROR_DETAILS = FALSE

\* housekeeping next to running work: agent_assign and cleanup_tasks calls
\* and the clock
NextMaint ==
    \/ \E p \in Callers :
          ncalls < MaxCalls /\ InOrder(p) /\ Call(p, "assign", "gemini-worker", 0)
    \/ \E p \in Callers, h \in {0, MaxAge} :
          ncalls < MaxCalls /\ InOrder(p) /\ CleanupCall(p, h)
    \/ \E p \in Callers : AssignBody(p)
    \/ \E p \in Callers : TaskInsert(p)
    \/ \E p \in Callers : TaskCommit(p)
    \/ \E t \in NewTaskIds : RunnerStart(t)
    \/ \E t \in NewTaskIds : RunnerFinish(t, "ok")
    \/ \E p \in Callers : CleanupBody(p)
    \/ \E p \in Callers : CleanupCutoff(p)
    \/ \E p \in Callers : CleanupDelete(p)
    \/ Tick

SpecMaint == InitMaintReady /\ [][NextMaint]_vars

\* the task store called directly, after setup on an empty database
Prompts == {"", "prompt"}
Timeouts == {1, TASK_TIMEOUT_SECONDS}
Contexts == {NoContext, AssignContext}
Results == {"", "response"}

InitApi ==
    /\ tasks = NoTasks
    /\ messages = {}
    /\ initialized = TRUE
    /\ setup_done = TRUE
    /\ registry = register(register(register(NoAgents, GeminiWorkerAgent(0)),
                                    CodexWorkerAgent(0)), CopilotWorkerAgent(0))
    /\ InitCalls
    /\ InitRetry
    /\ INBOX_MAX_MESSAGES = 1
    /\ PROVIDER_MAX_RETRIES = 3
    /\ PROVIDER_RETRY_BASE_DELAY = 1
    /\ MASK_ERROR_DETAILS = FALSE

NextApi ==
    \/ \E p \in Callers, a \in {"gemini-worker"}, m \in Prompts, c \in Contexts,
          s \in Timeouts :
          ncalls < MaxApiCalls /\ InOrder(p) /\ next_task <= MaxTasks /\ ApiCreate(p, a, m, c, s)
    \/ \E p \in Callers, t \in NewTaskIds, r \in Results :
          ncalls < MaxApiCalls /\ InOrder(p) /\ ApiUpdate(p, t, COMPLETED, r, NoError)
    \/ \E p \in Callers, t \in NewTaskIds :
          ncalls < MaxApiCalls /\ InOrder(p) /\ ApiUpdate(p, t, RUNNING, NULL, NoError)
    \/ \E p \in Callers, t \in NewTaskIds :
          ncalls < MaxApiCalls /\ InOrder(p) /\ ApiGet(p, t)
    \/ \E p \in Callers, a \in {NULL, "gemini-worker"}, s \in {NULL, PENDING} :
          ncalls < MaxApiCalls /\ InOrder(p) /\ ApiList(p, a, s)

SpecApi == InitApi /\ [][NextApi]_vars

\* the registry called directly by several coroutines, starting empty;
\* agents of the same name are registered again as new instances
Instances == {1, 2}
AgentsToRegister ==
    {GeminiWorkerAgent(i) : i \in Instances} \cup {CodexWorkerAgent(i) : i \in Instances}

InitRegistry ==
    /\ InitStore({})
    /\ InitCalls
    /\ InitRetry
    /\ INBOX_MAX_MESSAGES = 1
    /\ PROVIDER_MAX_RETRIES = 3
    /\ PROVIDER_RETRY_BASE_DELAY = 1
    /\ MASK_ERROR_DETAILS = FALSE

NextRegistry ==
    \/ \E p \in Callers, a \in AgentsToRegister :
          ncalls < MaxApiCalls /\ RegRegister(p, a)
    \/ \E p \in Callers, n \in AgentNames :
          ncalls < MaxApiCalls /\ RegGet(p, n)
    \/ \E p \in Callers :
          ncalls < MaxApiCalls /\ RegList(p)
    \/ \E p \in Callers, c \in {"synthesis", "code_review"} :
          ncalls < MaxApiCalls /\ RegByCapability(p, c)

SpecRegistry == InitRegistry /\ [][NextRegistry]_vars

\* the inbox after setup, on a database file in which an earlier process
\* left messages (ids -2..0) for two registered agents: concurrent
\* send_agent_message calls next to direct mark_as_read and clear_inbox calls
Recipients == {"gemini-worker", "codex-worker"}
OldMessages ==
    { [Msg(-2, "gemini-worker", -2) EXCEPT !.read = TRUE],
      Msg(-1, "codex-worker", -1),
      Msg(0, "gemini-worker", 0) }
IdLists == {NoIds, Ids({}), Ids({-2, -1}), Ids({0})}

InitInbox ==
    /\ tasks = NoTasks
    /\ messages = OldMessages
    /\ initialized = TRUE
    /\ setup_done = TRUE
    /\ registry = register(register(register(NoAgents, GeminiWorkerAgent(0)),
                                    CodexWorkerAgent(0)), CopilotWorkerAgent(0))
    /\ InitCalls
    /\ InitRetry
    /\ INBOX_MAX_MESSAGES = 2
    /\ PROVIDER_MAX_RETRIES = 3
    /\ PROVIDER_RETRY_BASE_DELAY = 1
    /\ MASK_ERROR_DETAILS = FALSE

NextInbox ==
    \/ \E p \in Callers, a \in Recipients :
          ncalls < MaxCalls /\ Call(p, "send", a, 0)
    \/ \E p \in Callers : SendBody(p)
    \/ \E p \in Callers : MsgInsert(p)
    \/ \E p \in Callers : MsgCount(p)
    \/ \E p \in Callers : MsgDelete(p)
    \/ \E p \in Callers, a \in Recipients, ids \in IdLists :
          ncalls < MaxCalls /\ MarkRead(p, a, ids)
    \/ \E p \in Callers, a \in Recipients :
          ncalls < MaxCalls /\ ClearInbox(p, a)
    \/ \E p \in Callers, a \in Recipients :
          ncalls < MaxCalls /\ SummaryCall(p, a)
    \/ \E p \in Callers : SummaryTotal(p)
    \/ \E p \in Callers : SummaryUnread(p)
    \/ \E p \in Callers : SummaryOldest(p)

SpecInbox == InitInbox /\ [][NextInbox]_vars

\* the inbox used by one client at a time: a call is made only when no call
\* is in flight; send_agent_message calls, and get_messages and
\* mark_as_read called directly
Limits == {0, 1, 2}

\* the caller that reads; with no call in flight it does not matter which
Reader == 1

AllIdle == \A p \in Callers : pc[p] = "idle"

InitSeq ==
    /\ InitStore({})
    /\ InitCalls
    /\ InitRetry
    /\ INBOX_MAX_MESSAGES \in 1..MaxInboxCap
    /\ PROVIDER_MAX_RETRIES = 3
    /\ PROVIDER_RETRY_BASE_DELAY = 1
    /\ MASK_ERROR_DETAILS = FALSE

NextSeq ==
    \/ \E p \in Callers, a \in AgentNames :
          ncalls < MaxSends /\ AllIdle /\ Call(p, "send", a, 0)
    \/ \E ids \in {NoIds, Ids({1})} :
          ncalls < MaxSends /\ AllIdle /\ MarkRead(Reader, "gemini-worker", ids)
    \/ \E u \in BOOLEAN, n \in Limits :
          ncalls < MaxSends /\ AllIdle /\ GetMessages(Reader, "gemini-worker", u, n)
    \/ \E p \in Callers : Connect(p)
    \/ \E p \in Callers : InitRecover(p)
    \/ \E p \in Callers : InitDone(p)
    \/ \E p \in Callers : SetupFinish(p)
    \/ \E p \in Callers : SendBody(p)
    \/ \E p \in Callers : MsgInsert(p)
    \/ \E p \in Callers : MsgCount(p)
    \/ \E p \in Callers : MsgDelete(p)

SpecSeq == InitSeq /\ [][NextSeq]_vars

\* send_agent_message calls running concurrently on a set-up server whose
\* INSERTs succeed, for every cap
InitSends ==
    /\ tasks = NoTasks
    /\ messages = {}
    /\ initialized = TRUE
    /\ setup_done = TRUE
    /\ registry = register(register(register(NoAgents, GeminiWorkerAgent(0)),
                                    CodexWorkerAgent(0)), CopilotWorkerAgent(0))
    /\ InitCalls
    /\ InitRetry
    /\ INBOX_MAX_MESSAGES \in 1..MaxInboxCap
    /\ PROVIDER_MAX_RETRIES = 3
    /\ PROVIDER_RETRY_BASE_DELAY = 1
    /\ MASK_ERROR_DETAILS = FALSE

NextSends ==
    \/ \E p \in Callers, a \in Recipients :
          ncalls < MaxSends /\ Call(p, "send", a, 0)
    \/ \E p \in Callers : SendBody(p)
    \/ \E p \in Callers : MsgInsert(p)
    \/ \E p \in Callers : MsgCount(p)
    \/ \E p \in Callers : MsgDelete(p)

SpecSends == InitSends /\ [][NextSends]_vars

\* the provider runner on its own, for every configured retry count
InitRunner ==
    /\ InitStore({})
    /\ InitCalls
    /\ InitRetry
    /\ INBOX_MAX_MESSAGES = 1
    /\ PROVIDER_MAX_RETRIES \in 0..MaxRetriesCfg
    /\ PROVIDER_RETRY_BASE_DELAY \in BaseDelays
    /\ MASK_ERROR_DETAILS = FALSE

NextRunner ==
    \/ RunCli
    \/ RunCliLogRaises
    \/ Launch
    \/ TimeoutKill
    \/ \E o \in RunOutcomes : Attempt(o)
    \/ Backoff

SpecRunner == InitRunner /\ [][NextRunner]_vars

\* the three provider calls the worker agents make: call_copilot, which is
\* run_cli_subprocess, and call_gemini and call_codex
NextProviders ==
    \/ NextRunner
    \/ procs[<<"cli", 0>>] < MaxCalls /\ CallDirect
    \/ ProcExit(<<"cli", 0>>)
    \/ DirectLaunch
    \/ \E o \in RunOutcomes, out \in Outputs : DirectFinish(o, out)

SpecProviders == InitRunner /\ [][NextProviders]_vars

\* the timeout arguments a caller passes: none, zero, and two positive ones
TimeoutArgs == {None, Some(0), Some(1), Some(TASK_TIMEOUT_SECONDS)}

\* handoffs and assignments called with a timeout argument, one call after
\* another, the detached executions running alongside
NextTimeout ==
    \/ \E k \in {"handoff", "assign"}, timeout \in TimeoutArgs :
          ncalls < MaxCalls /\ CallTimeout(Reader, k, "gemini-worker", 0, timeout)
    \/ \E p \in Callers : Connect(p)
    \/ \E p \in Callers : InitRecover(p)
    \/ \E p \in Callers : InitDone(p)
    \/ \E p \in Callers : SetupFinish(p)
    \/ \E p \in Callers : HandoffBody(p)
    \/ \E p \in Callers, o \in ExecOutcomes : HandoffFinish(p, o)
    \/ \E p \in Callers : AssignBody(p)
    \/ \E p \in Callers : TaskInsert(p)
    \/ \E p \in Callers : TaskCommit(p)
    \/ \E t \in NewTaskIds : RunnerStart(t)
    \/ \E t \in NewTaskIds, o \in ExecOutcomes : RunnerFinish(t, o)
    \/ \E e \in ExecIds : ProcExit(e)

SpecTimeout == Init /\ [][NextTimeout]_vars

\* the process once its first tool call has been served: the store is
\* initialised and the default agents are registered
InitReady ==
    /\ tasks = NoTasks
    /\ messages = {}
    /\ initialized = TRUE
    /\ setup_done = TRUE
    /\ registry = register(register(register(NoAgents, GeminiWorkerAgent(0)),
                                    CodexWorkerAgent(0)), CopilotWorkerAgent(0))
    /\ InitCalls
    /\ InitRetry
    /\ INBOX_MAX_MESSAGES = 1
    /\ PROVIDER_MAX_RETRIES = 3
    /\ PROVIDER_RETRY_BASE_DELAY = 1
    /\ MASK_ERROR_DETAILS = FALSE

\* every tool call of Next, on the process that is set up
NextReady ==
    \/ \E p \in Callers, k \in OpKinds, a \in SomeAgents, d \in Depths :
          ncalls < MaxCalls /\ InOrder(p) /\ Call(p, k, a, d)
    \/ \E p, q \in Callers, a \in SomeAgents :
          \E d \in {DefaultDepth, op[q].depth + 1} :
              ncalls < MaxCalls /\ InOrder(p) /\ ChainedCall(p, q, a, d)
    \/ \E p \in Callers : HandoffBody(p)
    \/ \E p \in Callers, o \in ExecOutcomes : HandoffFinish(p, o)
    \/ \E p \in Callers : AssignBody(p)
    \/ \E p \in Callers : TaskInsert(p)
    \/ \E p \in Callers : TaskCommit(p)
    \/ \E t \in NewTaskIds : RunnerStart(t)
    \/ \E t \in NewTaskIds, o \in ExecOutcomes : RunnerFinish(t, o)
    \/ \E p \in Callers : SendBody(p)
    \/ \E p \in Callers : MsgInsert(p)
    \/ \E p \in Callers : MsgCount(p)
    \/ \E p \in Callers : MsgDelete(p)
    \/ \E p \in Callers : TaskInsertFails(p)
    \/ \E p \in Callers : MsgInsertFails(p)
    \/ \E e \in ExecIds : ProcExit(e)

SpecReady == InitReady /\ [][NextReady]_vars

\* the first tool calls of a process, of every kind, arriving while the
\* store is being initialised and the agents registered
NextSetup ==
    \/ \E p \in Callers, k \in OpKinds :
          ncalls < MaxCalls /\ InOrder(p) /\ Call(p, k, "gemini-worker", MAX_HANDOFF_DEPTH)
    \/ \E p \in Callers : Connect(p)
    \/ \E p \in Callers : InitRecover(p)
    \/ \E p \in Callers : InitDone(p)
    \/ \E p \in Callers : SetupFinish(p)
    \/ \E p \in Callers : HandoffBody(p)
    \/ \E p \in Callers, o \in ExecOutcomes : HandoffFinish(p, o)
    \/ \E p \in Callers : AssignBody(p)
    \/ \E p \in Callers : TaskInsert(p)
    \/ \E p \in Callers : TaskCommit(p)
    \/ \E t \in NewTaskIds : RunnerStart(t)
    \/ \E t \in NewTaskIds, o \in ExecOutcomes : RunnerFinish(t, o)
    \/ \E p \in Callers : SendBody(p)
    \/ \E p \in Callers : MsgInsert(p)
    \/ \E p \in Callers : MsgCount(p)
    \/ \E p \in Callers : MsgDelete(p)

SpecSetup == Init /\ [][NextSetup]_vars


\* ================================================================ claims

\* C1 (as claimed): once a task row is COMPLETED, FAILED or TIMED_OUT no
\* step changes its status, result, error or completion time.
C1_TerminalNeverOverwritten ==
    [][\A t \in DOMAIN tasks :
          (tasks[t].status \in TerminalStatus /\ t \in DOMAIN tasks')
              => tasks'[t] = tasks[t]]_vars

\* C2 (as claimed): a task row has a completed_at exactly when its status is
\* terminal, rows rewritten by startup recovery included.
C2_CompletedAtIffTerminal ==
    \A t \in DOMAIN tasks :
        (tasks[t].completed_at # NULL) <=> (tasks[t].status \in TerminalStatus)

\* C3 (as claimed): a task created in this process lifetime is never
\* rewritten to FAILED / 'Server restarted' by startup recovery.
C3_NewTaskNeverRecovered ==
    \A t \in DOMAIN tasks \cap NewTaskIds :
        ~(tasks[t].status = FAILED /\ tasks[t].error = Err("Server restarted", 0))

AllowedTransitions ==
    { <<PENDING, RUNNING>>, <<RUNNING, COMPLETED>>, <<RUNNING, FAILED>>,
      <<RUNNING, TIMED_OUT>>, <<PENDING, FAILED>> }

\* C4 (as claimed): every change of a task's status is PENDING -> RUNNING,
\* RUNNING -> COMPLETED / FAILED / TIMED_OUT, or PENDING -> FAILED.
C4_StatusStateMachine ==
    [][\A t \in DOMAIN tasks \cap DOMAIN tasks' :
          tasks'[t].status # tasks[t].status
              => <<tasks[t].status, tasks'[t].status>> \in AllowedTransitions]_vars

\* C5 (as claimed): in every state, also between the insert and the eviction
\* of a send, no recipient holds more than INBOX_MAX_MESSAGES messages.
C5_InboxNeverOverCap ==
    \A a \in AgentNames : Cardinality(Inbox(messages, a)) <= INBOX_MAX_MESSAGES

SentTo(a) == {i \in 1..Len(sent) : sent[i][2] = a}
MostRecent(a, n) == {i \in SentTo(a) : Cardinality({j \in SentTo(a) : j > i}) < n}

\* C6: with sends issued one after another, once no send is in flight every
\* recipient holds exactly the min(k, cap) most recently sent of the k
\* messages sent to it.
C6_SequentialSendsKeepNewest ==
    AllIdle =>
        \A a \in AgentNames :
            /\ {m.message_id : m \in Inbox(messages, a)} = MostRecent(a, INBOX_MAX_MESSAGES)
            /\ Cardinality(Inbox(messages, a))
                  = Min(Cardinality(SentTo(a)), INBOX_MAX_MESSAGES)

\* C6 witness: all sends finished, more were sent to a recipient than the
\* cap, and its inbox is full.
C6_Witness ==
    /\ AllIdle
    /\ \E a \in AgentNames :
          /\ Cardinality(SentTo(a)) > INBOX_MAX_MESSAGES
          /\ Cardinality(Inbox(messages, a)) = INBOX_MAX_MESSAGES

\* the step in which caller p runs the Supervisor method of its call up to
\* its first suspension or its return
BodyStep(p) == pc[p] = "body" /\ pc'[p] # "body"

NoSideEffect ==
    /\ tasks' = tasks
    /\ messages' = messages
    /\ registry' = registry
    /\ exec_calls' = exec_calls
    /\ rpc' = rpc

\* C7: a handoff whose depth exceeds MAX_HANDOFF_DEPTH returns the
\* depth-exceeded failure naming the maximum, starts no execute and changes
\* no registry, task or message state, whether or not the agent exists; a
\* handoff at exactly the maximum is not rejected by the guard.
C7_DepthGuard ==
    [][\A p \in Callers :
          (BodyStep(p) /\ op[p].kind = "handoff")
              => IF op[p].depth > MAX_HANDOFF_DEPTH
                 THEN /\ result'[p] = HandoffResult(FALSE, "",
                                         Err("Max handoff depth exceeded", MAX_HANDOFF_DEPTH))
                      /\ pc'[p] = "idle"
                      /\ NoSideEffect
                 ELSE result'[p] # DepthExceeded]_vars

\* C7 witness: a handoff to a registered agent at depth max+1 has returned
\* the depth-exceeded failure.
C7_Witness ==
    \E p \in Callers :
        /\ pc[p] = "idle"
        /\ op[p].kind = "handoff"
        /\ op[p].depth = MAX_HANDOFF_DEPTH + 1
        /\ op[p].agent \in DOMAIN registry
        /\ result[p] = DepthExceeded

\* C8 (as claimed): for a name absent from the registry handoff returns the
\* not-found failure, assign returns FAILED with an empty task id, send
\* returns the not-found text; nothing is created or started.
C8_UnknownAgentNotFound ==
    [][\A p \in Callers :
          (BodyStep(p) /\ op[p].agent \notin DOMAIN registry)
              => /\ op[p].kind = "handoff" => result'[p] = HandoffResult(FALSE, "", NotFound)
                 /\ op[p].kind = "assign" => result'[p] = AssignResult(0, FAILED, NotFound)
                 /\ op[p].kind = "send" => result'[p] = SendFailure(NotFound)
                 /\ pc'[p] = "idle"
                 /\ NoSideEffect]_vars

\* C8 (amended): as C8, except that a handoff whose depth exceeds the
\* maximum returns the depth-exceeded failure instead of not-found.
C8_UnknownAgentFails ==
    [][\A p \in Callers :
          (BodyStep(p) /\ op[p].agent \notin DOMAIN registry)
              => /\ op[p].kind = "handoff" =>
                        result'[p] = IF op[p].depth > MAX_HANDOFF_DEPTH
                                     THEN DepthExceeded
                                     ELSE HandoffResult(FALSE, "", NotFound)
                 /\ op[p].kind = "assign" => result'[p] = AssignResult(0, FAILED, NotFound)
                 /\ op[p].kind = "send" => result'[p] = SendFailure(NotFound)
                 /\ pc'[p] = "idle"
                 /\ NoSideEffect]_vars

\* C8 witness: after setup, an assign and a send to an unregistered name
\* have both returned their not-found failure.
C8_Witness ==
    /\ setup_done
    /\ \E p, q \in Callers :
          /\ pc[p] = "idle" /\ op[p].agent \notin DOMAIN registry
          /\ result[p] = AssignResult(0, FAILED, NotFound)
          /\ pc[q] = "idle" /\ op[q].agent \notin DOMAIN registry
          /\ result[q] = SendFailure(NotFound)

AllTransient(s) == \A i \in 1..Len(s) : s[i] \in Transient
Front(s) == SubSeq(s, 1, Len(s) - 1)
Last(s) == s[Len(s)]

\* C9 (as claimed): with maximum m, transient failure on every attempt ends
\* in failure with the last transient error after exactly m invocations;
\* k < m transient failures then success ends in success after k+1.
C9_RetryCountIsMax ==
    rstate = "done" =>
        /\ AllTransient(outcomes) =>
              /\ Len(outcomes) = PROVIDER_MAX_RETRIES
              /\ response = FinalResponse(Last(outcomes))
        /\ (Last(outcomes) = "ok" /\ AllTransient(Front(outcomes))) =>
              /\ Len(outcomes) - 1 < PROVIDER_MAX_RETRIES
              /\ response.success

\* C9 (amended): the same with max(m, 1) in place of m: a configured
\* maximum of 0 behaves as 1.
C9_RetryCountIsMaxOrOne ==
    /\ rstate = "done" =>
        /\ AllTransient(outcomes) =>
              /\ Len(outcomes) = Max(PROVIDER_MAX_RETRIES, 1)
              /\ ~response.success
              /\ response = FinalResponse(Last(outcomes))
        /\ (Last(outcomes) = "ok" /\ AllTransient(Front(outcomes))) =>
              /\ Len(outcomes) - 1 < Max(PROVIDER_MAX_RETRIES, 1)
              /\ response.success
    /\ rstate \in {"running", "communicating", "killing", "waiting"} =>
        /\ AllTransient(outcomes)
        /\ Len(outcomes) < Max(PROVIDER_MAX_RETRIES, 1)
    /\ rstate = "waiting" => Len(outcomes) = attempt_number

\* C9 witness: a call that failed transiently on each of at least two
\* attempts has returned failure.
C9_Witness ==
    /\ rstate = "done"
    /\ Len(outcomes) >= 2
    /\ Len(outcomes) = PROVIDER_MAX_RETRIES
    /\ AllTransient(outcomes)
    /\ ~response.success

\* C10 (as claimed): a call in which the launch fails with 'not found' makes
\* exactly one invocation and no backoff wait and returns failure.
C10_NotFoundSingleAttempt ==
    (rstate = "done" /\ Last(outcomes) = "notfound") =>
        /\ Len(outcomes) = 1
        /\ waits = 0
        /\ ~response.success

\* C10 (amended): the attempt whose launch fails with 'not found' is the
\* last of its call: no invocation and no backoff wait follows it and the
\* call returns the not-found failure; when it is the first attempt the
\* call made exactly one invocation and no wait.
C10_NotFoundNeverRetried ==
    \A i \in 1..Len(outcomes) :
        outcomes[i] = "notfound" =>
            /\ i = Len(outcomes)
            /\ rstate = "done"
            /\ waits = i - 1
            /\ ~response.success
            /\ response.error = "command not found"

\* C10 witness: with more than one attempt configured, a call whose first
\* launch failed has returned after that single invocation.
C10_Witness ==
    /\ rstate = "done"
    /\ PROVIDER_MAX_RETRIES >= 2
    /\ outcomes = <<"notfound">>
    /\ waits = 0
    /\ ~response.success

\* C11: when the detached execution of a task makes its final write, the row
\* is COMPLETED with the response after a successful execute, FAILED with
\* the agent's error (or the default text) after a failed one, TIMED_OUT
\* with the text naming the timeout after a timeout, and FAILED with the
\* exception text, masked when masking is on, after any other exception.
C11_DetachedOutcome ==
    [][\A t \in NewTaskIds :
          (rpc[t] = "exec" /\ rpc'[t] = "done") =>
              /\ ended'[t] \in ExecOutcomes
              /\ t \in DOMAIN tasks'
              /\ ended'[t] = "ok" =>
                    /\ tasks'[t].status = COMPLETED
                    /\ tasks'[t].result = "response"
                    /\ tasks'[t].error = NoError
              /\ ended'[t] = "fail" =>
                    /\ tasks'[t].status = FAILED
                    /\ tasks'[t].error = Err("agent error", 0)
              /\ ended'[t] = "fail_noerr" =>
                    /\ tasks'[t].status = FAILED
                    /\ tasks'[t].error = Err("Agent returned failure", 0)
              /\ ended'[t] = "timeout" =>
                    /\ tasks'[t].status = TIMED_OUT
                    /\ tasks'[t].error = Err("Task timed out after", TASK_TIMEOUT_SECONDS)
              /\ ended'[t] = "exc" =>
                    /\ tasks'[t].status = FAILED
                    /\ tasks'[t].error = IF MASK_ERROR_DETAILS
                                         THEN Err("An internal error occurred", 0)
                                         ELSE Err("exception text", 0)
              /\ ended'[t] # "ok" => tasks'[t].result = NULL]_vars

\* C11 witness: one detached execution has ended in a timeout and its task
\* is TIMED_OUT, another has ended in success and its task is COMPLETED.
C11_Witness ==
    \E t, u \in DOMAIN tasks \cap NewTaskIds :
        /\ rpc[t] = "done" /\ ended[t] = "timeout" /\ tasks[t].status = TIMED_OUT
        /\ rpc[u] = "done" /\ ended[u] = "ok" /\ tasks[u].status = COMPLETED

\* C12: under fair scheduling every task row created by assign is
\* eventually in a terminal status and stays terminal from then on: it
\* never remains PENDING or RUNNING forever.
C12_TaskEventuallyTerminal ==
    \A t \in NewTaskIds :
        [](t \in DOMAIN tasks
              => <>[](t \in DOMAIN tasks /\ tasks[t].status \in TerminalStatus))

\* C12 witness: a task whose agent call raised has had its final write and
\* is FAILED.
C12_Witness ==
    \E t \in DOMAIN tasks \cap NewTaskIds :
        /\ rpc[t] = "done"
        /\ ended[t] = "exc"
        /\ tasks[t].status = FAILED

\* C13 (as claimed): at the step in which assign returns for a registered
\* agent, the task row exists exactly as inserted, with status PENDING, the
\* returned result carries PENDING and the row's id, and the detached
\* execution is scheduled but has not run.
C13_AssignReturnsPending ==
    [][\A p \in Callers :
          (pc[p] = "commit" /\ pc'[p] = "idle") =>
              /\ result'[p] = AssignResult(local[p].id, PENDING, Err("Task assigned", local[p].id))
              /\ rpc'[local[p].id] = "start"
              /\ local[p].id \in DOMAIN tasks'
              /\ tasks'[local[p].id] = NewTask(op[p].agent, TASK_TIMEOUT_SECONDS)]_vars

\* C14 (as claimed): no call of handoff, assign or send_message ends by
\* raising to its caller, whichever collaborator fails: execute raising, the
\* task insert failing in assign, the inbox insert failing in send_message.
C14_NeverRaises ==
    \A p \in Callers : result[p].kind # "raised"

\* C15 (as claimed): once a handoff has returned its timeout failure, or a
\* detached execution has recorded TIMED_OUT, no provider process started
\* for that execution is still alive.
C15_TimeoutKillsProcess ==
    /\ \A p \in Callers :
          (pc[p] = "idle" /\ result[p] = HandoffOutcome("timeout", TASK_TIMEOUT_SECONDS))
              => procs[<<"handoff", p>>] = 0
    /\ \A t \in NewTaskIds :
          (rpc[t] = "done" /\ ended[t] = "timeout") => procs[<<"task", t>>] = 0

\* C16: within one run_cli_subprocess call at most one provider process is
\* alive at any time: a process that exceeded the timeout has been killed
\* and has exited before its attempt is classified, so none is alive
\* during a backoff wait, when the next attempt launches, or when the call
\* has returned.
C16_OneProcessAtATime ==
    /\ procs[<<"cli", 0>>] <= 1
    /\ rstate \in {"idle", "running", "waiting", "done"} => procs[<<"cli", 0>>] = 0
    /\ rstate \in {"communicating", "killing"} => procs[<<"cli", 0>>] = 1

\* C16 witness: the first attempt timed out and the process of the second
\* attempt is running, alone.
C16_Witness ==
    /\ rstate = "communicating"
    /\ attempt_number = 2
    /\ outcomes = <<"timeout">>
    /\ procs[<<"cli", 0>>] = 1

\* C17: a task row in a terminal status never has both a result and an
\* error; a COMPLETED row has a result and no error; a FAILED or TIMED_OUT
\* row, one rewritten by startup recovery included, has an error and no
\* result.
C17_ResultXorError ==
    \A t \in DOMAIN tasks :
        /\ tasks[t].status \in TerminalStatus =>
              ~(tasks[t].result # NULL /\ tasks[t].error # NoError)
        /\ tasks[t].status = COMPLETED =>
              (tasks[t].result # NULL /\ tasks[t].error = NoError)
        /\ tasks[t].status \in {FAILED, TIMED_OUT} =>
              (tasks[t].error # NoError /\ tasks[t].result = NULL)

\* C17 witness: the row of the earlier process was failed by startup
\* recovery, one task of this process is COMPLETED and one TIMED_OUT.
C17_Witness ==
    /\ DOMAIN tasks = {OldTaskId} \cup NewTaskIds
    /\ tasks[OldTaskId].status = FAILED
    /\ tasks[OldTaskId].error = Err("Server restarted", 0)
    /\ \E t, u \in NewTaskIds :
          tasks[t].status = COMPLETED /\ tasks[u].status = TIMED_OUT

\* the instant an isoformat() text stands for
fromisoformat(text) ==
    IF Len(text) = 2 THEN Time(text[1], 0) ELSE Time(text[1], text[3])

\* C18: the step in which cleanup_old_tasks deletes removes a row exactly
\* when its status is terminal and it was created before the cutoff; rows
\* PENDING or RUNNING and newer rows stay as they are, no message changes,
\* and the number returned is the number of rows removed.
C18_CleanupDeletesOldTerminal ==
    [][\A p \in Callers :
          (pc[p] = "delete" /\ pc'[p] = "idle") =>
              /\ \A t \in DOMAIN tasks :
                    (t \notin DOMAIN tasks') <=>
                        /\ tasks[t].status \in TerminalStatus
                        /\ Before(fromisoformat(tasks[t].created_at),
                                  fromisoformat(local[p].cutoff))
              /\ \A t \in DOMAIN tasks' : t \in DOMAIN tasks /\ tasks'[t] = tasks[t]
              /\ messages' = messages
              /\ result'[p] = Deleted(Cardinality(DOMAIN tasks \ DOMAIN tasks'))]_vars

\* C18 witness: a cleanup has returned having deleted one row, while an
\* older row that is still RUNNING and the stored message are left.
C18_Witness ==
    \E p \in Callers, t \in DOMAIN tasks :
        /\ pc[p] = "idle"
        /\ result[p] = Deleted(1)
        /\ tasks[t].status = RUNNING
        /\ TextLess(tasks[t].created_at, local[p].cutoff)
        /\ messages # {}

\* C19: every run of the startup recovery leaves a table on which running
\* it again changes nothing; it keeps every row that was terminal exactly as
\* it was (status, result, error, completed_at), and rewrites only rows that
\* were PENDING or RUNNING, to FAILED / 'Server restarted'; it adds and
\* removes no row.
C19_RecoveryIdempotent ==
    [][\A p \in Callers :
          (pc[p] = "init_wait" /\ pc'[p] = "init_commit") =>
              /\ DOMAIN tasks' = DOMAIN tasks
              /\ RecoverOrphans(tasks') = tasks'
              /\ \A t \in DOMAIN tasks :
                    IF tasks[t].status \in TerminalStatus
                    THEN tasks'[t] = tasks[t]
                    ELSE tasks'[t] = [tasks[t] EXCEPT !.status = FAILED,
                                                      !.error = Err("Server restarted", 0)]]_vars

\* C19 witness: recovery has run twice with nothing in between (two first
\* callers, both past their UPDATE) on a table whose only row it failed.
C19_Witness ==
    /\ \A p \in Callers : pc[p] = "init_commit"
    /\ DOMAIN tasks = {OldTaskId}
    /\ tasks[OldTaskId].status = FAILED
    /\ tasks[OldTaskId].error = Err("Server restarted", 0)

\* the caller whose call this step is
Acting(p, kind) == op'[p] # op[p] /\ op'[p].kind = kind

\* C20: the task create_task returns is what get_task of its id returns
\* right after, and list_tasks with status PENDING (with or without the
\* agent filter) contains it; after update_status(COMPLETED, result = r) on
\* an existing task, get_task shows COMPLETED, result r, no error, a
\* completed_at, and every other field as before.
C20_StoreRoundTrip ==
    [][\A p \in Callers :
          /\ Acting(p, "create_task") =>
                /\ result'[p].task.task_id = op'[p].task_id
                /\ result'[p].task.status = PENDING
                /\ get_task(tasks', op'[p].task_id) = result'[p].task
                /\ result'[p].task \in list_tasks(tasks', NULL, PENDING)
                /\ result'[p].task \in list_tasks(tasks', result'[p].task.agent_name, PENDING)
          /\ (/\ Acting(p, "update_status")
              /\ op'[p].status = COMPLETED
              /\ op'[p].task_id \in DOMAIN tasks) =>
                LET was == get_task(tasks, op'[p].task_id)
                    is == get_task(tasks', op'[p].task_id)
                IN  /\ is = [was EXCEPT !.status = COMPLETED, !.result = op'[p].result,
                                         !.error = NoError, !.completed_at = is.completed_at]
                    /\ is.completed_at # NULL
                    /\ result'[p] = Returned(is)]_vars

\* C20 witness: a task created with prompt, timeout and context was
\* completed with the empty result, and get_task has returned it so.
C20_Witness ==
    \E p \in Callers :
        /\ op[p].kind = "get_task"
        /\ op[p].task_id \in DOMAIN tasks
        /\ result[p] = Returned(get_task(tasks, op[p].task_id))
        /\ result[p].task.status = COMPLETED
        /\ result[p].task.result = ""
        /\ result[p].task.orch_context = AssignContext
        /\ result[p].task.timeout_seconds = 1

\* C21 (as claimed): along a chain of handoffs the context the agent is
\* executed with in hop n+1 has the depth of hop n plus one.
C21_DepthIncreasesPerHop ==
    \A p \in Callers :
        (pc[p] = "exec" /\ op[p].kind = "handoff" /\ "parent" \in DOMAIN op[p])
            => HandoffContext(op[p].depth).current_depth = op[p].parent_depth + 1

\* C22: a handoff that passes the depth and lookup checks starts execute
\* exactly once, and when execute has ended the result is success with the
\* response if it returned success, failure with the agent's error (or the
\* default text) if it returned failure, failure with 'Handoff timed out
\* after <timeout>s' if the timeout fired, and failure with the exception
\* text, masked when masking is on, if it raised.
C22_HandoffOutcome ==
    [][\A p \in Callers :
          /\ (BodyStep(p) /\ op[p].kind = "handoff" /\ op[p].depth <= MAX_HANDOFF_DEPTH
                  /\ op[p].agent \in DOMAIN registry) =>
                /\ pc'[p] = "exec"
                /\ exec_calls' = [exec_calls EXCEPT ![op[p].agent] = @ + 1]
          /\ (pc[p] = "exec" /\ pc'[p] = "idle") =>
                /\ exec_calls' = exec_calls
                /\ result'[p].kind = "handoff"
                /\ result'[p].success <=> hended'[p] = "ok"
                /\ hended'[p] = "ok" =>
                      result'[p] = HandoffResult(TRUE, "response", NoError)
                /\ hended'[p] = "fail" =>
                      result'[p] = HandoffResult(FALSE, "", Err("agent error", 0))
                /\ hended'[p] = "fail_noerr" =>
                      result'[p] = HandoffResult(FALSE, "", Err("Agent returned failure", 0))
                /\ hended'[p] = "timeout" =>
                      result'[p] = HandoffResult(FALSE, "",
                                      Err("Handoff timed out after", TASK_TIMEOUT_SECONDS))
                /\ hended'[p] \in Exceptions =>
                      result'[p] = HandoffResult(FALSE, "",
                                      IF MASK_ERROR_DETAILS
                                      THEN Err("An internal error occurred", 0)
                                      ELSE str(hended'[p]))]_vars

\* C22 witness: a handoff whose execute ran into the timeout has returned
\* the timeout failure, and its agent was executed once.
C22_Witness ==
    \E p \in Callers :
        /\ pc[p] = "idle"
        /\ op[p].kind = "handoff"
        /\ hended[p] = "timeout"
        /\ result[p] = HandoffResult(FALSE, "", Err("Handoff timed out after", TASK_TIMEOUT_SECONDS))
        /\ exec_calls[op[p].agent] = 1

\* the failure an execute that raised has left: the handoff's result, the
\* task's error
RaisedHandoffs == {p \in Callers : pc[p] = "idle" /\ op[p].kind = "handoff"
                                     /\ hended[p] \in Exceptions}
RaisedTasks == {t \in DOMAIN tasks \cap NewTaskIds : rpc[t] = "done" /\ ended[t] \in Exceptions}

\* C26: with error masking on, the result a handoff returns and the error
\* an assigned task stores after execute raised is the same generic message
\* whatever the exception text: two executions that raised different texts
\* leave identical results; with masking off the text is passed on as is.
C26_MaskingHidesExceptionText ==
    /\ MASK_ERROR_DETAILS =>
          /\ \A p, q \in RaisedHandoffs : result[p] = result[q]
          /\ \A p \in RaisedHandoffs :
                result[p] = HandoffResult(FALSE, "", Err("An internal error occurred", 0))
          /\ \A t, u \in RaisedTasks : tasks[t].error = tasks[u].error
          /\ \A t \in RaisedTasks :
                tasks[t].status = FAILED /\ tasks[t].error = Err("An internal error occurred", 0)
    /\ ~MASK_ERROR_DETAILS =>
          /\ \A p \in RaisedHandoffs : result[p] = HandoffResult(FALSE, "", str(hended[p]))
          /\ \A t \in RaisedTasks : tasks[t].status = FAILED /\ tasks[t].error = str(ended[t])

\* C26 witness: with masking on, two handoffs whose executes raised
\* different texts have returned.
C26_Witness ==
    /\ MASK_ERROR_DETAILS
    /\ \E p, q \in RaisedHandoffs : hended[p] = "exc" /\ hended[q] = "exc_other"

\* the agent of the most recent completed register for a name, NoAgent when
\* the name was never registered
LastRegistered(log, name) ==
    LET idx == {i \in 1..Len(log) : log[i].name = name}
    IN  IF idx = {} THEN NoAgent
        ELSE log[CHOOSE i \in idx : \A j \in idx : j <= i]
NamesRegistered(log) == {log[i].name : i \in 1..Len(log)}

\* C23: whatever the interleaving of callers, get(name) returns the agent of
\* the most recent completed register for that name, or none if the name
\* was never registered; list_agents and get_by_capability return the map
\* as it is at one instant: one info per registered name, that of its most
\* recent registration (those having the capability, for the latter).
C23_RegistryLinearizable ==
    [][\A p \in Callers :
          /\ Acting(p, "get") =>
                result'[p] = Found(LastRegistered(registered, op'[p].name))
          /\ Acting(p, "list_agents") =>
                /\ result'[p].infos =
                      {info(LastRegistered(registered, n)) : n \in NamesRegistered(registered)}
                /\ \A n \in AgentNames :
                      Cardinality({i \in result'[p].infos : i.name = n}) <= 1
          /\ Acting(p, "get_by_capability") =>
                result'[p].infos =
                    {info(LastRegistered(registered, n)) :
                        n \in {m \in NamesRegistered(registered) :
                                  op'[p].capability
                                      \in LastRegistered(registered, m).capabilities}}
          /\ Acting(p, "register") =>
                /\ registry'[op'[p].name] = LastRegistered(registered', op'[p].name)
                /\ \A n \in DOMAIN registry \ {op'[p].name} :
                      n \in DOMAIN registry' /\ registry'[n] = registry[n]]_vars

\* C23 witness: a name was registered twice, with two instances, and a get
\* by another caller has returned the second.
C23_Witness ==
    \E p, q \in Callers :
        /\ p # q
        /\ op[q].kind = "register" /\ op[q].seq = 2
        /\ op[p].kind = "get" /\ op[p].seq = 3
        /\ Len(registered) = 2
        /\ registered[1].name = registered[2].name
        /\ registered[1].inst # registered[2].inst
        /\ result[p] = Found(registered[2])

\* the recipient the step of caller p works on, when the step is one of
\* send's statements, a mark_as_read or a clear_inbox
InboxStep(p) ==
    \/ pc[p] \in {"msg_insert", "msg_delete"} /\ pc'[p] # pc[p]
    \/ Acting(p, "mark_as_read")
    \/ Acting(p, "clear_inbox")
StepRecipient(p) ==
    IF pc[p] \in {"msg_insert", "msg_delete"} THEN op[p].agent ELSE op'[p].agent

\* C24: a step of send (its eviction included), mark_as_read (with or
\* without ids, also ids of another recipient's messages) or clear_inbox for
\* recipient A leaves the messages of every other recipient as they are;
\* clear_inbox(A) returns the number of A's messages and leaves A none.
C24_InboxFrame ==
    [][\A p \in Callers :
          /\ InboxStep(p) =>
                \A b \in AgentNames \ {StepRecipient(p)} :
                    Inbox(messages', b) = Inbox(messages, b)
          /\ Acting(p, "clear_inbox") =>
                /\ result'[p] = Count(Cardinality(Inbox(messages, op'[p].agent)))
                /\ Inbox(messages', op'[p].agent) = {}]_vars

\* C24 witness: mark_as_read for one recipient was called with the id of
\* an unread message of another recipient, which is still unread.
C24_Witness ==
    \E p \in Callers, m \in messages :
        /\ op[p].kind = "mark_as_read"
        /\ m.message_id \in op[p].message_ids.ids
        /\ m.to_agent # op[p].agent
        /\ ~m.read
        /\ result[p] = Count(0)

\* the messages mark_as_read is to mark: those of the recipient with an id
\* in the list when a list is given, the recipient's unread ones otherwise
ToMark(tbl, agent, message_ids) ==
    IF message_ids.given
    THEN {m \in tbl : m.to_agent = agent /\ m.message_id \in message_ids.ids}
    ELSE {m \in tbl : m.to_agent = agent /\ ~m.read}

\* C25 (as claimed): mark_as_read(agent, ids) sets the read flag on exactly
\* the recipient's messages whose id is in ids, for every list including the
\* empty one, and without ids on exactly the recipient's unread messages;
\* the count returned is the number of messages so marked; no read flag
\* goes back from true to false.
C25_MarkReadExact ==
    [][\A p \in Callers :
          Acting(p, "mark_as_read") =>
              LET target == ToMark(messages, op'[p].agent, op'[p].message_ids)
              IN  /\ messages' = SetRead(messages, target)
                  /\ result'[p] = Count(Cardinality(target))
                  /\ \A m \in messages : m.read => m \in messages']_vars

\* the rows get_messages is to choose from
Matching(tbl, agent, unread_only) ==
    {m \in tbl : m.to_agent = agent /\ (unread_only => ~m.read)}

\* C27: get_messages(agent, unread_only, limit) returns only messages
\* addressed to agent, only unread ones when unread_only, at most limit of
\* them (the min(limit, number matching) newest ones), newest first; of two
\* messages sent one after the other the later-sent one never comes after
\* the earlier-sent one.
C27_NewestFirstAtMostLimit ==
    [][\A p \in Callers :
          Acting(p, "get_messages") =>
              LET seq == result'[p].messages
                  all == Matching(messages, op'[p].agent, op'[p].unread_only)
              IN  /\ \A i \in 1..Len(seq) : seq[i] \in all
                  /\ Len(seq) <= op'[p].limit
                  /\ Len(seq) = Min(op'[p].limit, Cardinality(all))
                  /\ \A m \in all :
                        (\E i \in 1..Len(seq) : seq[i] = m)
                            <=> Cardinality({k \in all : k.timestamp > m.timestamp}) < Len(seq)
                  /\ \A i, j \in 1..Len(seq) :
                        i < j => /\ seq[i].timestamp > seq[j].timestamp
                                 /\ seq[i].message_id > seq[j].message_id]_vars

\* C27 witness: three messages were sent to a recipient one after the other,
\* and get_messages with limit 2 has returned the last two, the last first.
C27_Witness ==
    \E p \in Callers :
        /\ op[p].kind = "get_messages"
        /\ op[p].limit = 2
        /\ Cardinality(Inbox(messages, op[p].agent)) = 3
        /\ Len(result[p].messages) = 2
        /\ result[p].messages[1].message_id = 3
        /\ result[p].messages[2].message_id = 2

\* C28 (as claimed): a call whose process exits zero with empty output and
\* non-empty diagnostics returns failure with the diagnostic text after
\* exactly one invocation and no backoff wait; one whose process exits zero
\* with both empty returns success with the placeholder text.
C28_StderrOnlySingleInvocation ==
    rstate = "done" =>
        /\ Last(outcomes) = "appfail" =>
              /\ Len(outcomes) = 1
              /\ waits = 0
              /\ response = [success |-> FALSE, response |-> "", error |-> "stderr text"]
        /\ Last(outcomes) = "empty" =>
              response = [success |-> TRUE, response |-> "(empty)", error |-> NULL]

\* C28 (amended): the attempt whose process exits zero with empty output and
\* non-empty diagnostics is the last of its call: no invocation and no
\* backoff wait follows it and the call returns failure with the diagnostic
\* text; after k transient failures before it the call made k+1 invocations
\* and k waits.  An attempt that exits zero with both empty is the last one
\* too and the call returns success with the placeholder text.
C28_StderrOnlyNeverRetried ==
    \A i \in 1..Len(outcomes) :
        /\ outcomes[i] = "appfail" =>
              /\ i = Len(outcomes)
              /\ rstate = "done"
              /\ waits = i - 1
              /\ AllTransient(Front(outcomes))
              /\ response = [success |-> FALSE, response |-> "", error |-> "stderr text"]
        /\ outcomes[i] = "empty" =>
              /\ i = Len(outcomes)
              /\ rstate = "done"
              /\ response = [success |-> TRUE, response |-> "(empty)", error |-> NULL]

\* C28 witness: with more than one attempt configured, a call whose first
\* process exited zero with only diagnostics has returned the failure after
\* that single invocation.
C28_Witness ==
    /\ rstate = "done"
    /\ PROVIDER_MAX_RETRIES >= 2
    /\ outcomes = <<"appfail">>
    /\ waits = 0
    /\ response.error = "stderr text"

\* the attempts that end in an exception: a launch error, a transient
\* error, anything else
Raising == Transient \cup LaunchFailures \cup {"exc"}

\* C29: run_cli_subprocess never raises to its caller: a call whose last
\* attempt ended in an exception (fatal launch error, exhausted transient
\* errors, any other exception) returns a result with success=false and a
\* non-empty error string.
C29_NeverRaises ==
    /\ rstate # "raised"
    /\ (rstate = "done" /\ Last(outcomes) \in Raising) =>
           /\ ~response.success
           /\ response.error \notin {NULL, ""}

\* C30: with sends to one recipient running concurrently, once all of them
\* have finished the recipient holds exactly min(number sent, cap) messages,
\* and a message sent to it is missing only if at least cap newer messages
\* for that recipient are stored.
C30_ConcurrentSendsEvictOnlyExcess ==
    AllIdle =>
        \A a \in AgentNames :
            /\ Cardinality(Inbox(messages, a))
                  = Min(Cardinality(SentTo(a)), INBOX_MAX_MESSAGES)
            /\ \A i \in SentTo(a) :
                  (\A m \in Inbox(messages, a) : m.message_id # i) =>
                      Cardinality({m \in Inbox(messages, a) : m.message_id > i})
                          >= INBOX_MAX_MESSAGES

\* the executions of agent a in flight: handoffs waiting in agent.execute
\* and detached tasks whose execute runs
Executing(a) ==
    {<<"handoff", p>> : p \in {q \in Callers : pc[q] = "exec" /\ op[q].agent = a}}
        \cup {<<"task", t>> : t \in {u \in NewTaskIds : rpc[u] = "exec" /\ ragent[u] = a}}

\* C31: an agent's status is "busy" in every state in which at least one of
\* its executions is in flight and "idle" when none is; it does not read
\* "idle" while a second concurrent execution of it still runs.
C31_StatusBusyIffExecuting ==
    \A a \in DOMAIN registry :
        _status[a] = IF Executing(a) # {} THEN "busy" ELSE "idle"

\* how many times an agent named n was registered
TimesRegistered(n) == Cardinality({i \in 1..Len(registered) : registered[i].name = n})

\* C32: setup registers each default agent exactly once per process
\* lifetime, for any number of tool calls arriving before setup has
\* finished: each of the three names is registered at most once, exactly
\* once when setup is done, and the Registry holds the object registered
\* then, so the object an execution runs on is never replaced.
C32_DefaultAgentsRegisteredOnce ==
    \A n \in DefaultAgents :
        /\ TimesRegistered(n) <= 1
        /\ n \in DOMAIN registry <=> TimesRegistered(n) = 1
        /\ setup_done => TimesRegistered(n) = 1
        /\ \A i \in 1..Len(registered) : registered[i].name = n => registry[n] = registered[i]

\* C32 witness: a tool call that arrived before setup had finished is about
\* to run the registration step while the setup of a concurrent call has
\* registered the agents, and an execution of one of them is in flight.
C32_Witness ==
    \E p, q \in Callers :
        /\ pc[p] = "setup"
        /\ setup_done
        /\ Len(registered) = 3
        /\ pc[q] = "exec"

\* C33: at most one store connection is open per process lifetime (between
\* close_db calls), for any interleaving of the operations that call get_db
\* concurrently on first use: no second connection is created.
C33_OneConnection ==
    Cardinality(connections) <= 1

\* C34: every summary get_inbox_summary returns describes the inbox at one
\* instant, also with sends, mark_as_read or clear_inbox for the recipient
\* between its queries: unread_count is at most total_messages, and
\* oldest_unread is not None exactly when unread_count is greater than zero.
C34_SummaryIsSnapshot ==
    \A p \in Callers :
        result[p].kind = "summary" =>
            /\ result[p].unread_count <= result[p].total_messages
            /\ result[p].oldest_unread # None <=> result[p].unread_count > 0

\* caller p takes a step of Supervisor.handoff: the guards and the start of
\* execute, or the end of execute and the return
HandoffStep(p) ==
    /\ op[p].kind = "handoff"
    /\ pc[p] \in {"body", "exec"}
    /\ pc'[p] # pc[p]

\* C35: Supervisor.handoff changes no durable or registry state: for every
\* outcome (success, provider failure, timeout, exception, not-found,
\* depth-exceeded) its steps leave the task rows, the message rows and the
\* Registry map as they are.
C35_HandoffFrame ==
    [][\A p \in Callers :
          HandoffStep(p) =>
              /\ tasks' = tasks
              /\ messages' = messages
              /\ registry' = registry]_vars

\* C35 witness: with a message stored and the agents registered, a handoff
\* whose execute raised has returned its failure.
C35_Witness ==
    \E p \in Callers :
        /\ pc[p] = "idle"
        /\ op[p].kind = "handoff"
        /\ hended[p] = "exc"
        /\ result[p].kind = "handoff"
        /\ messages # {}
        /\ DOMAIN registry # {}

\* C36: update_status with a task id that is not in the store returns None
\* and leaves the task table unchanged (no row is created or modified);
\* get_task with an unknown id returns None.
C36_UnknownTaskId ==
    [][\A p \in Callers :
          /\ (Acting(p, "update_status") /\ op'[p].task_id \notin DOMAIN tasks) =>
                /\ result'[p] = Returned(NoTask)
                /\ tasks' = tasks
          /\ (Acting(p, "get_task") /\ op'[p].task_id \notin DOMAIN tasks) =>
                /\ result'[p] = Returned(NoTask)
                /\ tasks' = tasks]_vars

\* C36 witness: with a task stored, update_status and get_task were called
\* with an id the store does not hold and returned None.
C36_Witness ==
    \E p, q \in Callers :
        /\ op[p].kind = "update_status"
        /\ op[q].kind = "get_task"
        /\ op[p].task_id \notin DOMAIN tasks
        /\ op[q].task_id \notin DOMAIN tasks
        /\ result[p] = Returned(NoTask)
        /\ result[q] = Returned(NoTask)
        /\ DOMAIN tasks # {}

\* C37: all three agent variants apply the same failure classification and
\* retry policy: for each of them a provider process that exits non-zero is
\* a transient failure, retried up to the configured maximum, so a call
\* whose last process failed transiently has made the maximum number of
\* invocations and returns failure, and only transient failures are
\* followed by another invocation.
C37_SameRetryPolicy ==
    rstate \in {"done", "direct_done"} =>
        /\ AllTransient(Front(outcomes))
        /\ Last(outcomes) \in Transient =>
              /\ Len(outcomes) = Max(PROVIDER_MAX_RETRIES, 1)
              /\ ~response.success

\* C38: every wait between two attempts of run_cli_subprocess is at least 0
\* and at most 30 seconds; the wait after attempt i is at least
\* base_delay * 2^(i-1) unless that exceeds the cap; there is one wait per
\* retried attempt and none after the final attempt.
C38_BackoffWaitBounds ==
    /\ \A i \in 1..Len(delays) :
          /\ delays[i] >= 0
          /\ delays[i] <= WaitCap
          /\ PROVIDER_RETRY_BASE_DELAY * 2 ^ (i - 1) <= WaitCap =>
                 delays[i] >= PROVIDER_RETRY_BASE_DELAY * 2 ^ (i - 1)
    /\ Len(delays) = waits
    /\ rstate \in {"running", "communicating", "killing"} => Len(delays) = Len(outcomes)
    /\ rstate \in {"waiting", "done"} => Len(delays) = Len(outcomes) - 1

\* a call that ended after three attempts: a wait at the floor, then one
\* with jitter, and the exponential term of a third would have passed the cap
C38_Witness ==
    /\ rstate = "done"
    /\ PROVIDER_RETRY_BASE_DELAY = 8
    /\ PROVIDER_MAX_RETRIES = 4
    /\ delays = <<8, 17, WaitCap>>
    /\ Len(outcomes) = 4

\* C39 (as claimed): a handoff or assignment called with a timeout override
\* t runs under t: the task row of the assignment carries t, and a timeout
\* failure, of the handoff or of the task, names t.
C39_TimeoutOverrideIsUsed ==
    \A p \in Callers :
        op[p].kind \in {"handoff", "assign"} /\ op[p].timeout # None =>
            /\ (op[p].kind = "handoff" /\ pc[p] = "idle" /\ hended[p] = "timeout") =>
                   result[p] = HandoffResult(FALSE, "",
                                   Err("Handoff timed out after", op[p].timeout.ts))
            /\ (op[p].kind = "assign" /\ pc[p] \in {"commit", "idle"}
                    /\ local[p].id \in NewTaskIds /\ local[p].id \in DOMAIN tasks) =>
                   /\ tasks[local[p].id].timeout_seconds = op[p].timeout.ts
                   /\ tasks[local[p].id].status = TIMED_OUT =>
                          tasks[local[p].id].error =
                              Err("Task timed out after", op[p].timeout.ts)

====
